---- MODULE Spec2Model ----
(***************************************************************************)
(* A model of the ingestion pipeline of janus-baseline:                    *)
(*   - utils/concurrency_manager.py : admission capacity, session registry *)
(*   - utils/db_connection.py       : SQLiteConnectionPool                 *)
(*   - apk_analysis_core.py         : download_apk and the on-disk cache,  *)
(*                                    validate_and_clean_apks, the batch   *)
(*   - utils/ui_logger.py           : the process registry (cancellation)  *)
(*   - utils/dex_parser.py          : DEXParser                            *)
(*   - precomputed_connectivity_logic.py, user_apk_analysis_logic.py :     *)
(*                                    download_apks, an analysis request   *)
(* Each subsystem has its own variables and its own specification; a       *)
(* specification leaves the variables of the other subsystems unchanged.   *)
(***************************************************************************)
EXTENDS Integers, Sequences, FiniteSets, TLC

VARIABLES
    \* ---- host probes read by get_max_concurrent_users, and its result
    HAS_PSUTIL,            \* psutil could be imported
    cpu_probe,             \* os.cpu_count(); None is NoValue
    available_mb,          \* psutil.virtual_memory().available, in MiB
    probe_raises,          \* psutil.virtual_memory() raises
    MAX_CONCURRENT_USERS,  \* module global; NoValue before the module is loaded
    \* ---- session registry (concurrency_manager.py) and its request handlers
    active_sessions,       \* session id -> start_time
    now,                   \* time.time(), in seconds
    ticks,                 \* number of clock advances so far
    pc,                    \* handler -> "idle" | "admitted" | "running"
    sid,                   \* handler -> session id of its current request
    next_sid,              \* next fresh uuid
    reply,                 \* handler -> "none" | "busy" | "done": its last answer
    \* ---- SQLiteConnectionPool (db_connection.py)
    max_connections,
    connections,           \* self._connections: the free list
    in_use,                \* self._in_use: thread id -> connection
    created,               \* connections opened so far (the n-th one is n)
    pool_ret,              \* the last pool call and what it returned
    \* ---- download_apk (apk_analysis_core.py) and the cache directory
    cache,                 \* sha256 -> size of <cache dir>/<sha256>.apk, NoFile when absent
    d_pc,                  \* "idle" | "loop" | "done"
    d_hash,
    d_max_retries,
    d_retry_cycles,
    d_cycle,
    d_attempts,
    d_requests,            \* HTTP requests issued by the current call
    d_failures,            \* responses of the current call that were failures
    d_sleeps,              \* time.sleep(200) calls of the current call
    d_fetched,             \* hashes some earlier call downloaded successfully
    d_result,              \* "none" | "hit" | "path" | "exhausted" | "raised"
    \* ---- the process registry (utils/ui_logger.py)
    process_registry,      \* _process_registry: session id -> thread, NoValue when absent
    sc_ret,                \* the last registry call and what it returned
    cancelled,             \* session id -> what the last cancel_process found, while
                           \* no register_process followed it
    \* ---- DEXParser (dex_parser.py)
    data,                  \* self.data: the image, a sequence of bytes
    header,                \* self.header; NoHeader before parse_header
    string_ids,            \* self.string_ids
    strings,               \* self.strings: each a sequence of code points
    dex_pc,                \* "none" | "fresh" | "parsed" | "error": the last parse()
    dex_parses,            \* parse() calls on this parser so far
    dex_table,             \* how the image was built: the records its table names
    dex_cut,               \* how the image was built: where it was cut short
    uleb_in,               \* the value whose encoding the last read_uleb128 was given
    uleb_ret,              \* what the last read_uleb128 returned
    \* ---- validate_and_clean_apks (apk_analysis_core.py)
    q_files,               \* file name -> [apk: its name ends in .apk, cond: its container]
    q_where,               \* file name -> "cache" | "trash": the directory it is in
    q_pc,                  \* "idle" | "done"
    \* ---- download_apks and process_package_apks over the artifacts of a package
    b_variant,             \* "precomputed" | "user_apk": whose download_apks runs
    b_pc,                  \* "idle" | "package" | "poll" | "download" | "returned" | "processed"
    b_n,                   \* artifacts sampled for the package
    b_polls,               \* should_cancel calls of download_apks so far
    b_poll_true,           \* one of them returned True
    b_outcomes,            \* what the download of each artifact started so far did
    b_ret,                 \* "none" | "None" | "list" | "raised": how download_apks ended
    b_results,             \* the list download_apks builds: artifacts, in order
    b_extract,             \* what process_file did for each artifact
    b_data,                \* all_data of process_package_apks: artifacts with rows, in order
    \* ---- analysis requests (historical_connectivity_callbacks.py, process_apks)
    r_pc,                  \* thread -> "idle" | "init_db" | "query" | "work" | "done"
    r_cause,               \* thread -> what ended its request early, "none" if nothing
    r_out,                 \* thread -> "none" | "figures" | "empty" | "error": what the
                           \* callback shows
    \* ---- a request thread: the before_request sweep, then process_apks_callback
    cb_pc,                 \* handler -> "idle" | "scan" | "del" | "entry" | "admitted" |
                           \*            "work" | "rm_check" | "rm_del"
    cb_sid,                \* handler -> the session its callback registered, NoValue if none
    cb_path,               \* handler -> "try" | "none" | "except": the branch of the
                           \*            callback that calls remove_session
    cb_end,                \* handler -> how its last request ended: "none" | "other" |
                           \*            "busy" | "True" | "False" (remove_session's return)
                           \*            | "raised" | "KeyError" | "RuntimeError" (the sweep's)
    sw_time,               \* handler -> current_time of its clean_stale_sessions
    sw_size,               \* handler -> len(active_sessions) when its iteration began
    sw_pos,                \* handler -> the last key its iteration yielded
    sw_stale,              \* handler -> its stale_sessions list
    raced,                 \* some register_session ran after the capacity its thread
                           \* had seen was taken by another thread
    \* ---- extract_apk_features on one artifact (apk_analysis_core.py)
    x_zip_ok,              \* zipfile can read the artifact's container
    x_images,              \* its .dex members in container order: how each was built
    x_json,                \* <file_path>.urls.json: whether it exists, and its list
    x_pc,                  \* "idle" | "loop" | "write" | "done"
    x_use_cache,           \* use_cache_json of the current call
    x_i,                   \* images the loop of the current call has decoded
    x_data,                \* data of the current call
    x_via,                 \* "none" | "json" | "decoded": where the call got its list
    x_ret,                 \* what the last call returned
    x_calls,               \* calls so far
    \* ---- the versions download_apks picks for one package
    s_n,                   \* candidate versions of the package in the date range
    s_desired,             \* desired_versions
    s_pc,                  \* "idle" | "done"
    s_tasks,               \* download_tasks: the versions picked, as positions in the list
    s_raised,              \* the selection raised
    \* ---- the analysis flows over the process registry
    f_pc,                  \* thread -> "idle" | "run" | "done"
    f_kind,                \* thread -> the flow of its request
    f_sid,                 \* thread -> the session id of its request
    f_n,                   \* thread -> artifacts of its request
    f_at,                  \* thread -> position of its next registry call in FlowSites
    f_seen,                \* thread -> artifacts whose features were extracted
    f_true,                \* thread -> a poll of its request returned True
    f_err,                 \* thread -> a poll of its request raised
    f_cancel,              \* thread -> cancel_process found the entry of its session
                           \* while polls of the request were still ahead
    f_ret,                 \* thread -> "none" | "None" | "results": what the flow returned
    f_next                 \* next fresh uuid of the flows

capVars  == <<HAS_PSUTIL, cpu_probe, available_mb, probe_raises, MAX_CONCURRENT_USERS>>
admVars  == <<active_sessions, now, ticks, pc, sid, next_sid, reply>>
poolVars == <<max_connections, connections, in_use, created, pool_ret>>
dlVars   == <<cache, d_pc, d_hash, d_max_retries, d_retry_cycles, d_cycle,
              d_attempts, d_requests, d_failures, d_sleeps, d_fetched, d_result>>
canVars  == <<process_registry, sc_ret, cancelled>>
dexVars  == <<data, header, string_ids, strings, dex_pc, dex_parses, dex_table, dex_cut,
              uleb_in, uleb_ret>>
qVars    == <<q_files, q_where, q_pc>>
bVars    == <<b_variant, b_pc, b_n, b_polls, b_poll_true, b_outcomes, b_ret, b_results,
              b_extract, b_data>>
reqVars  == <<r_pc, r_cause, r_out>>
sessVars == <<cb_pc, cb_sid, cb_path, cb_end, sw_time, sw_size, sw_pos, sw_stale, raced>>
exVars   == <<x_zip_ok, x_images, x_json, x_pc, x_use_cache, x_i, x_data, x_via, x_ret,
              x_calls>>
sampVars == <<s_n, s_desired, s_pc, s_tasks, s_raised>>
flowVars == <<f_pc, f_kind, f_sid, f_n, f_at, f_seen, f_true, f_err, f_cancel, f_ret, f_next>>
lateVars == <<sessVars, exVars, sampVars, flowVars>>
extVars  == <<canVars, dexVars, qVars, bVars, reqVars, lateVars>>
vars     == <<capVars, admVars, poolVars, dlVars, extVars>>

\* Python's None, for an integer-valued slot.
NoValue == 0

Max(a, b) == IF a >= b THEN a ELSE b
Min(a, b) == IF a <= b THEN a ELSE b

(***************************************************************************)
(* Admission capacity: concurrency_manager.get_max_concurrent_users        *)
(***************************************************************************)

\* MiB per 1.5 GiB: available / (1024*1024*1024) / 1.5, on a MiB count.
MbPerSession == 1536
FallbackUsers == 5
DefaultCpuCount == 4
MaxUsersCap == 20

\* Probe values the host may report.
CpuProbes == {NoValue, 1, 2, 3, 4, 5, 8, 20, 21, 22, 64}
MemProbes == {0, 1535, 1536, 3071, 3072, 6144, 30719, 30720, 32255, 32256, 65536}

\* A plausible slip: the result is not clamped from above.
get_max_concurrent_users_noclamp(has_psutil, raises, cpu, mem_mb) ==
    IF ~has_psutil THEN FallbackUsers
    ELSE IF raises THEN FallbackUsers
    ELSE LET cpu_count     == IF cpu = NoValue THEN DefaultCpuCount ELSE cpu
             max_by_cpu    == Max(1, cpu_count - 1)
             max_by_memory == Max(1, mem_mb \div MbPerSession)
         IN  Max(1, Min(max_by_cpu, max_by_memory))

get_max_concurrent_users(has_psutil, raises, cpu, mem_mb) ==
    IF ~has_psutil THEN FallbackUsers
    ELSE IF raises THEN FallbackUsers
    ELSE LET cpu_count     == IF cpu = NoValue THEN DefaultCpuCount ELSE cpu
             max_by_cpu    == Max(1, cpu_count - 1)
             max_by_memory == Max(1, mem_mb \div MbPerSession)
             suggested_max == Min(max_by_cpu, max_by_memory)
         IN  Max(1, Min(MaxUsersCap, suggested_max))

CapInit ==
    /\ HAS_PSUTIL \in BOOLEAN
    /\ probe_raises \in BOOLEAN
    /\ cpu_probe \in CpuProbes
    /\ available_mb \in MemProbes
    /\ MAX_CONCURRENT_USERS = NoValue

\* concurrency_manager is imported: MAX_CONCURRENT_USERS = get_max_concurrent_users()
LoadModule ==
    /\ MAX_CONCURRENT_USERS = NoValue
    /\ MAX_CONCURRENT_USERS' =
           get_max_concurrent_users(HAS_PSUTIL, probe_raises, cpu_probe, available_mb)
    /\ UNCHANGED <<HAS_PSUTIL, cpu_probe, available_mb, probe_raises>>

(***************************************************************************)
(* Session registry: concurrency_manager.py, called by the                 *)
(* process_apks_callback handlers and by the before_request middleware     *)
(***************************************************************************)

SESSION_TIMEOUT == 1800

\* Request-handling threads (app.run(threaded=True)), requests served, clock advances.
NumHandlers == 2
MaxRequests == 3
MaxTicks == 2
\* Largest os.cpu_count() of the hosts the registry is run on.
MaxHostCpu == 3

Handlers == 1..NumHandlers
TickSteps == {1, SESSION_TIMEOUT}

\* d restricted to the keys in S
Restrict(d, S) == [k \in S |-> d[k]]

\* A plausible slip: a session is stale from the timeout on, not after it.
stale_sessions_ge(current_time) ==
    {s \in DOMAIN active_sessions : current_time - active_sessions[s] >= SESSION_TIMEOUT}

\* the list built by the first loop of clean_stale_sessions
stale_sessions(current_time) ==
    {s \in DOMAIN active_sessions : current_time - active_sessions[s] > SESSION_TIMEOUT}

has_capacity == Cardinality(DOMAIN active_sessions) < MAX_CONCURRENT_USERS

AdmInit ==
    /\ active_sessions = [s \in {} |-> 0]
    /\ now = 0
    /\ ticks = 0
    /\ pc = [h \in Handlers |-> "idle"]
    /\ sid = [h \in Handlers |-> NoValue]
    /\ next_sid = 1
    /\ reply = [h \in Handlers |-> "none"]

\* The host of the registry: MAX_CONCURRENT_USERS is already computed.
HostInit ==
    /\ HAS_PSUTIL = TRUE
    /\ probe_raises = FALSE
    /\ cpu_probe \in 2..MaxHostCpu
    /\ available_mb = 65536
    /\ MAX_CONCURRENT_USERS =
           get_max_concurrent_users(HAS_PSUTIL, probe_raises, cpu_probe, available_mb)

\* time passes
Tick ==
    /\ ticks < MaxTicks
    /\ \E d \in TickSteps : now' = now + d
    /\ ticks' = ticks + 1
    /\ UNCHANGED <<active_sessions, pc, sid, next_sid, reply>>

\* clean_stale_sessions(), run by the middleware before any request
CleanStaleSessions ==
    /\ LET current_time == now
           stale == stale_sessions(current_time)
       IN  active_sessions' = Restrict(active_sessions, DOMAIN active_sessions \ stale)
    /\ UNCHANGED <<now, ticks, pc, sid, next_sid, reply>>

\* process_apks_callback: session_id = uuid4(); if not has_capacity(): return busy
HasCapacity(h) ==
    /\ pc[h] = "idle"
    /\ next_sid <= MaxRequests
    /\ sid' = [sid EXCEPT ![h] = next_sid]
    /\ next_sid' = next_sid + 1
    /\ IF has_capacity
         THEN /\ pc' = [pc EXCEPT ![h] = "admitted"]
              /\ reply' = [reply EXCEPT ![h] = "none"]
         ELSE /\ pc' = pc
              /\ reply' = [reply EXCEPT ![h] = "busy"]
    /\ UNCHANGED <<active_sessions, now, ticks>>

\* register_session(session_id, data), then the analysis starts
RegisterSession(h) ==
    /\ pc[h] = "admitted"
    /\ active_sessions' =
           [s \in DOMAIN active_sessions \cup {sid[h]} |->
               IF s = sid[h] THEN now ELSE active_sessions[s]]
    /\ pc' = [pc EXCEPT ![h] = "running"]
    /\ UNCHANGED <<now, ticks, sid, next_sid, reply>>

\* the analysis ends; remove_session(session_id)
RemoveSession(h) ==
    /\ pc[h] = "running"
    /\ IF sid[h] \in DOMAIN active_sessions
         THEN active_sessions' = Restrict(active_sessions, DOMAIN active_sessions \ {sid[h]})
         ELSE active_sessions' = active_sessions
    /\ pc' = [pc EXCEPT ![h] = "idle"]
    /\ reply' = [reply EXCEPT ![h] = "done"]
    /\ UNCHANGED <<now, ticks, sid, next_sid>>

(***************************************************************************)
(* SQLiteConnectionPool: db_connection.py                                  *)
(***************************************************************************)

\* Thread identities, largest max_connections, connections opened in a run.
NumThreads == 3
MaxPoolSize == 2
MaxCreated == 3

Threads == 1..NumThreads

\* what a pool call returned: op, calling thread, conn argument, returned
\* connection, and the return or raise statement that ended the call
Ret(op, t, arg, val, via) == [op |-> op, tid |-> t, arg |-> arg, val |-> val, via |-> via]

PoolInit ==
    /\ max_connections \in 1..MaxPoolSize
    /\ connections = <<>>
    /\ in_use = [t \in {} |-> 0]
    /\ created = 0
    /\ pool_ret = Ret("init", NoValue, NoValue, NoValue, "init")

\* A plausible slip: the fast path is skipped.
HoldsConnectionNever(t) == FALSE

\* get_connection: thread_id in self._in_use
HoldsConnection(t) == t \in DOMAIN in_use

\* A plausible slip: an off-by-one in the limit.
UnderLimitLe == Cardinality(DOMAIN in_use) <= max_connections

\* get_connection: len(self._in_use) < self.max_connections
UnderLimit == Cardinality(DOMAIN in_use) < max_connections

\* in_use with t's reservation set to c
Reserve(t, c) == [u \in DOMAIN in_use \cup {t} |-> IF u = t THEN c ELSE in_use[u]]

\* get_connection() on thread t; connect_ok is whether sqlite3.connect succeeds
GetConnection(t, connect_ok) ==
    /\ (~HoldsConnection(t) /\ connections = <<>> /\ UnderLimit /\ connect_ok)
           => created < MaxCreated
    /\ IF HoldsConnection(t)
         THEN /\ pool_ret' = Ret("get", t, NoValue, in_use[t], "held")
              /\ UNCHANGED <<max_connections, connections, in_use, created>>
       ELSE IF connections # <<>>
         THEN LET conn == connections[Len(connections)]
              IN  /\ connections' = SubSeq(connections, 1, Len(connections) - 1)
                  /\ in_use' = Reserve(t, conn)
                  /\ pool_ret' = Ret("get", t, NoValue, conn, "reused")
                  /\ UNCHANGED <<max_connections, created>>
       ELSE IF UnderLimit
         THEN IF connect_ok
                THEN LET conn == created + 1
                     IN  /\ created' = conn
                         /\ in_use' = Reserve(t, conn)
                         /\ pool_ret' = Ret("get", t, NoValue, conn, "created")
                         /\ UNCHANGED <<max_connections, connections>>
                ELSE /\ pool_ret' = Ret("get", t, NoValue, NoValue, "connect_error")
                     /\ UNCHANGED <<max_connections, connections, in_use, created>>
       ELSE /\ pool_ret' = Ret("get", t, NoValue, NoValue, "exhausted")
            /\ UNCHANGED <<max_connections, connections, in_use, created>>

\* A plausible slip: the reservation is kept when the connection is returned.
ReleasedInUseKeep(t) == in_use

\* release_connection: del self._in_use[thread_id]
ReleasedInUse(t) == Restrict(in_use, DOMAIN in_use \ {t})

\* release_connection(conn) on thread t; conn is None or a connection opened before
ReleaseConnection(t, arg) ==
    LET conn == IF arg = NoValue /\ t \in DOMAIN in_use THEN in_use[t] ELSE arg
    IN  /\ IF t \in DOMAIN in_use
             THEN /\ connections' = Append(connections, conn)
                  /\ in_use' = ReleasedInUse(t)
             ELSE UNCHANGED <<connections, in_use>>
        /\ pool_ret' = Ret("release", t, arg, NoValue, "return")
        /\ UNCHANGED <<max_connections, created>>

\* close_all()
CloseAll ==
    /\ connections' = <<>>
    /\ in_use' = [t \in {} |-> 0]
    /\ pool_ret' = Ret("close_all", NoValue, NoValue, NoValue, "return")
    /\ UNCHANGED <<max_connections, created>>

(***************************************************************************)
(* download_apk and the cache directory: apk_analysis_core.py              *)
(***************************************************************************)

\* os.path.getsize(apk_path) > 1000
MinApkSize == 1000
\* the size slot of a path at which no file exists
NoFile == -1

\* Content hashes, largest max_retries and retry_cycles a caller passes.
NumHashes == 2
MaxRetries == 2
MaxCycles == 2

Hashes == 1..NumHashes
BodySizes == {0, 1000, 1001, 2000}

\* What one requests.get and the streaming of its body can do: the status, the
\* bytes that reach the file, and whether an exception ends it (for a 200, after
\* those bytes were written; otherwise in requests.get itself).
Responses == [status : {200, 503}, body : BodySizes, raises : BOOLEAN]

\* A failed attempt in the words of the interface: a status other than 200, or a
\* 200 whose body is at most 1000 bytes.
IsFailure(r) == ~r.raises /\ (r.status # 200 \/ r.body <= 1000)
IsSuccess(r) == ~r.raises /\ r.status = 200 /\ r.body > 1000

\* A plausible slip: the cache is never consulted.
check_apk_in_cache_never(h) == FALSE

\* check_apk_in_cache: os.path.exists(<cache dir>/<sha256>.apk)
check_apk_in_cache(h) == cache[h] # NoFile

\* A plausible slip: a file of exactly the threshold passes.
SizeOkGe(size) == size >= MinApkSize

\* os.path.getsize(apk_path) > 1000
SizeOk(size) == size > MinApkSize

\* A plausible slip: one attempt too many in each cycle.
MoreAttemptsLe == d_attempts <= d_max_retries

\* while attempts < max_retries
MoreAttempts == d_attempts < d_max_retries

DlInit ==
    /\ cache = [h \in Hashes |-> NoFile]
    /\ d_pc = "idle"
    /\ d_hash = NoValue
    /\ d_max_retries = 0
    /\ d_retry_cycles = 0
    /\ d_cycle = 0
    /\ d_attempts = 0
    /\ d_requests = 0
    /\ d_failures = 0
    /\ d_sleeps = 0
    /\ d_fetched = {}
    /\ d_result = "none"

\* download_apk(sha256 = h, max_retries = mr, retry_cycles = rc) is called: the cache check
DownloadStart(h, mr, rc) ==
    /\ d_pc # "loop"
    /\ d_hash' = h
    /\ d_max_retries' = mr
    /\ d_retry_cycles' = rc
    /\ d_cycle' = 0
    /\ d_attempts' = 0
    /\ d_requests' = 0
    /\ d_failures' = 0
    /\ d_sleeps' = 0
    /\ IF check_apk_in_cache(h)
         THEN /\ d_pc' = "done"
              /\ d_result' = "hit"
         ELSE /\ d_pc' = "loop"
              /\ d_result' = "none"
    /\ UNCHANGED <<cache, d_fetched>>

\* one pass of the while loop: requests.get, the write of the body, the size check
Request(r) ==
    /\ d_pc = "loop"
    /\ d_cycle < d_retry_cycles
    /\ MoreAttempts
    /\ d_requests' = d_requests + 1
    /\ d_failures' = IF IsFailure(r) THEN d_failures + 1 ELSE d_failures
    /\ UNCHANGED <<d_hash, d_max_retries, d_retry_cycles, d_cycle>>
    /\ IF r.raises
         THEN \* the exception leaves download_apk; a 200 has written r.body bytes
              /\ cache' = IF r.status = 200 THEN [cache EXCEPT ![d_hash] = r.body] ELSE cache
              /\ d_pc' = "done"
              /\ d_result' = "raised"
              /\ UNCHANGED <<d_attempts, d_sleeps, d_fetched>>
       ELSE IF r.status = 200
         THEN /\ cache' = [cache EXCEPT ![d_hash] = r.body]
              /\ IF SizeOk(r.body)
                   THEN /\ d_pc' = "done"
                        /\ d_result' = "path"
                        /\ d_fetched' = d_fetched \cup {d_hash}
                        /\ UNCHANGED <<d_attempts, d_sleeps>>
                   ELSE /\ d_attempts' = d_attempts + 1
                        /\ d_sleeps' = IF d_attempts + 1 >= d_max_retries
                                         THEN d_sleeps + 1 ELSE d_sleeps
                        /\ UNCHANGED <<d_pc, d_result, d_fetched>>
       ELSE /\ d_attempts' = d_attempts + 1
            /\ d_sleeps' = IF d_attempts + 1 >= d_max_retries
                             THEN d_sleeps + 1 ELSE d_sleeps
            /\ UNCHANGED <<cache, d_pc, d_result, d_fetched>>

\* the while loop ends; the for loop takes the next cycle
NextCycle ==
    /\ d_pc = "loop"
    /\ d_cycle < d_retry_cycles
    /\ ~MoreAttempts
    /\ d_cycle' = d_cycle + 1
    /\ d_attempts' = 0
    /\ UNCHANGED <<cache, d_pc, d_hash, d_max_retries, d_retry_cycles, d_requests,
                   d_failures, d_sleeps, d_fetched, d_result>>

\* the for loop ends: return None
ReturnNone ==
    /\ d_pc = "loop"
    /\ d_cycle >= d_retry_cycles
    /\ d_pc' = "done"
    /\ d_result' = "exhausted"
    /\ UNCHANGED <<cache, d_hash, d_max_retries, d_retry_cycles, d_cycle, d_attempts,
                   d_requests, d_failures, d_sleeps, d_fetched>>

(***************************************************************************)
(* The process registry: utils/ui_logger.py                                *)
(***************************************************************************)

\* Sessions that use the registry; the identities are the threads above.
NumSessions == 2

Sessions == 1..NumSessions

\* cancelled[s] when no cancel_process(s) is pending over the session
NotCancelled == -1

RegRet(op, s, t, val) == [op |-> op, session |-> s, thread |-> t, val |-> val]

CanInit ==
    /\ process_registry = [s \in Sessions |-> NoValue]
    /\ sc_ret = RegRet("init", NoValue, NoValue, FALSE)
    /\ cancelled = [s \in Sessions |-> NotCancelled]

\* A plausible slip: the comparison the wrong way round.
should_cancel_same(session_id, current_thread) ==
    IF session_id = NoValue THEN FALSE
    ELSE IF process_registry[session_id] = NoValue THEN FALSE
    ELSE process_registry[session_id] = current_thread

\* should_cancel(session_id), called by the thread current_thread
should_cancel(session_id, current_thread) ==
    IF session_id = NoValue THEN FALSE
    ELSE IF process_registry[session_id] = NoValue THEN FALSE
    ELSE process_registry[session_id] # current_thread

\* A plausible slip: the entry is only logged, not deleted.
without_session_keep(s) == process_registry

\* del _process_registry[session_id]
without_session(s) == [process_registry EXCEPT ![s] = NoValue]

\* register_process(session_id = s, process = t)
RegisterProcess(s, t) ==
    /\ process_registry' = [process_registry EXCEPT ![s] = t]
    /\ sc_ret' = RegRet("register_process", s, t, FALSE)
    /\ cancelled' = [cancelled EXCEPT ![s] = NotCancelled]

\* should_cancel(session_id = s), called by thread t
ShouldCancel(s, t) ==
    /\ sc_ret' = RegRet("should_cancel", s, t, should_cancel(s, t))
    /\ UNCHANGED <<process_registry, cancelled>>

\* cancel_process(session_id = s)
CancelProcess(s) ==
    /\ IF process_registry[s] # NoValue
         THEN /\ process_registry' = without_session(s)
              /\ sc_ret' = RegRet("cancel_process", s, NoValue, TRUE)
         ELSE /\ sc_ret' = RegRet("cancel_process", s, NoValue, FALSE)
              /\ UNCHANGED process_registry
    /\ cancelled' = [cancelled EXCEPT ![s] = process_registry[s]]

(***************************************************************************)
(* DEXParser: dex_parser.py                                                *)
(***************************************************************************)

\* The header is the first 112 bytes; string_ids_size and string_ids_off are
\* the little-endian words at bytes 56 and 60 of it.
HeaderSize == 112
StringIdsSizeAt == 56
StringIdsOffAt == 60
\* U+FFFD, which decode(errors='replace') puts for an invalid sequence
Replacement == 65533

\* data[a:b] of Python for 0 <= a: it stops at the end of the data silently
Slice(d, a, b) == SubSeq(d, a + 1, Min(b, Len(d)))

\* struct.unpack('<I', b)[0]; struct.error (here -1) unless b has 4 bytes
UnpackError == -1
unpack_u32(b) ==
    IF Len(b) # 4 THEN UnpackError
    ELSE b[1] + 256 * b[2] + 65536 * b[3] + 16777216 * b[4]

\* struct.pack('<I', v), for the images built below
pack_u32(v) ==
    <<v % 256, (v \div 256) % 256, (v \div 65536) % 256, (v \div 16777216) % 256>>

RECURSIVE Pow2(_)
Pow2(n) == IF n = 0 THEN 1 ELSE 2 * Pow2(n - 1)

\* A plausible slip: the continuation test misses a byte of exactly 0x80.
has_continuation_gt(byte) == byte > 128

\* byte & 0x80 != 0
has_continuation(byte) == byte >= 128

\* read_uleb128(offset) over the bytes d, with the loop's result and shift;
\* self.data[offset] past the end raises IndexError (ok = FALSE), nothing is read
RECURSIVE uleb_loop(_, _, _, _)
uleb_loop(d, offset, result, shift) ==
    IF offset >= Len(d)
      THEN [ok |-> FALSE, result |-> NoValue, offset |-> offset]
      ELSE LET byte == d[offset + 1]
               r == result + (byte % 128) * Pow2(shift)
           IN IF has_continuation(byte)
                THEN uleb_loop(d, offset + 1, r, shift + 7)
                ELSE [ok |-> TRUE, result |-> r, offset |-> offset + 1]

read_uleb128(d, offset) == uleb_loop(d, offset, 0, 0)

\* The base-128 little-endian encoding read_uleb128 reads: 7 bits a byte, the
\* high bit set on every byte but the last.
RECURSIVE uleb128(_)
uleb128(v) == IF v < 128 THEN <<v>> ELSE <<128 + (v % 128)>> \o uleb128(v \div 128)

\* bytes.decode('utf-8', errors='replace'): a well-formed sequence gives its
\* code point; an ill-formed one gives U+FFFD for its longest valid prefix (one
\* byte at least) and decoding goes on after it.
RECURSIVE utf8_decode(_)
utf8_decode(b) ==
    IF b = <<>> THEN <<>>
    ELSE IF b[1] < 128
      THEN \* a run of ASCII bytes decodes to itself
           LET stop == {i \in 1..Len(b) : b[i] >= 128}
               run == IF stop = {} THEN Len(b)
                      ELSE (CHOOSE i \in stop : \A j \in stop : i <= j) - 1
           IN SubSeq(b, 1, run) \o utf8_decode(SubSeq(b, run + 1, Len(b)))
    ELSE LET b0 == b[1]
             need == IF b0 < 128 THEN 0
                     ELSE IF b0 \in 194..223 THEN 1
                     ELSE IF b0 \in 224..239 THEN 2
                     ELSE IF b0 \in 240..244 THEN 3
                     ELSE -1
             lo == IF b0 = 224 THEN 160 ELSE IF b0 = 240 THEN 144 ELSE 128
             hi == IF b0 = 237 THEN 159 ELSE IF b0 = 244 THEN 143 ELSE 191
             ok(k) == /\ Len(b) >= k + 1
                      /\ b[k + 1] \in (IF k = 1 THEN lo..hi ELSE 128..191)
             good == Cardinality({k \in 1..Max(need, 0) : \A j \in 1..k : ok(j)})
             lead == IF need = 0 THEN b0
                     ELSE IF need = 1 THEN b0 % 32
                     ELSE IF need = 2 THEN b0 % 16
                     ELSE b0 % 8
             point == IF need = 0 THEN lead
                      ELSE IF need = 1 THEN lead * 64 + (b[2] % 64)
                      ELSE IF need = 2 THEN lead * 4096 + (b[2] % 64) * 64 + (b[3] % 64)
                      ELSE lead * 262144 + (b[2] % 64) * 4096 + (b[3] % 64) * 64 + (b[4] % 64)
         IN IF need = -1
              THEN <<Replacement>> \o utf8_decode(Tail(b))
            ELSE IF good = need
              THEN <<point>> \o utf8_decode(SubSeq(b, need + 2, Len(b)))
            ELSE <<Replacement>> \o utf8_decode(SubSeq(b, good + 2, Len(b)))

\* self.header = {}
EmptyHeader == [string_ids_size |-> -1, string_ids_off |-> -1]

\* parse_header: both words are unpacked before self.header is assigned
parse_header(d) ==
    LET header_data == Slice(d, 0, HeaderSize)
        size == unpack_u32(Slice(header_data, StringIdsSizeAt, StringIdsSizeAt + 4))
        off == unpack_u32(Slice(header_data, StringIdsOffAt, StringIdsOffAt + 4))
    IN [ok |-> size # UnpackError /\ off # UnpackError,
        header |-> [string_ids_size |-> size, string_ids_off |-> off]]

\* parse_string_ids: n more words from offset are appended to ids; a short
\* word raises and leaves what was appended so far
RECURSIVE parse_string_ids(_, _, _, _)
parse_string_ids(d, offset, n, ids) ==
    IF n = 0 THEN [ok |-> TRUE, ids |-> ids]
    ELSE LET string_data_off == unpack_u32(Slice(d, offset, offset + 4))
         IN IF string_data_off = UnpackError
              THEN [ok |-> FALSE, ids |-> ids]
              ELSE parse_string_ids(d, offset + 4, n - 1, Append(ids, string_data_off))

\* A plausible slip: the byte after the declared length is taken too.
string_bytes_more(d, offset, size) == Slice(d, offset, offset + size + 1)

\* self.data[offset:offset + size]
string_bytes(d, offset, size) == Slice(d, offset, offset + size)

\* parse_strings from the i-th of ids on: each decoded string is appended to
\* strs; a varint that runs off the data raises and leaves what was appended
RECURSIVE parse_strings(_, _, _, _)
parse_strings(d, ids, i, strs) ==
    IF i > Len(ids) THEN [ok |-> TRUE, strings |-> strs]
    ELSE LET r == read_uleb128(d, ids[i])
         IN IF ~r.ok
              THEN [ok |-> FALSE, strings |-> strs]
              ELSE parse_strings(d, ids, i + 1,
                       Append(strs, utf8_decode(string_bytes(d, r.offset, r.result))))

\* The string records of the synthetic images: the declared length, the bytes
\* that follow the varint (the text and its terminating 0), and the text the
\* first `declared` bytes spell.
RecordPool == <<
    [declared |-> 0, bytes |-> <<0>>, text |-> <<>>],
    [declared |-> 2, bytes |-> <<104, 105, 0>>, text |-> <<104, 105>>],
    [declared |-> 2, bytes |-> <<195, 169, 0>>, text |-> <<233>>],
    [declared |-> 1, bytes |-> <<195, 169, 0>>, text |-> <<Replacement>>],
    [declared |-> 3, bytes |-> <<97, 255, 98, 0>>, text |-> <<97, Replacement, 98>>],
    [declared |-> 3, bytes |-> <<226, 130, 172, 0>>, text |-> <<8364>>],
    [declared |-> 128, bytes |-> [i \in 1..129 |-> IF i = 129 THEN 0 ELSE 97],
     text |-> [i \in 1..128 |-> 97]] >>

\* Entries in the string table of an image, parse() calls on one parser.
MaxStrings == 2
MaxParses == 2

Tables == UNION {[1..n -> 1..Len(RecordPool)] : n \in 0..MaxStrings}
Cuts == {"none", "header", "table", "record"}

RecordBytes(k) == uleb128(RecordPool[k].declared) \o RecordPool[k].bytes

\* the records one after the other, from the k-th on: the data section
RECURSIVE DataSection(_)
DataSection(k) ==
    IF k > Len(RecordPool) THEN <<>> ELSE RecordBytes(k) \o DataSection(k + 1)

\* where the k-th record starts in an image with n table entries
RecordOffset(n, k) == HeaderSize + 4 * n + (Len(DataSection(1)) - Len(DataSection(k)))

RECURSIVE TableSection(_, _)
TableSection(table, i) ==
    IF i > Len(table) THEN <<>>
    ELSE pack_u32(RecordOffset(Len(table), table[i])) \o TableSection(table, i + 1)

\* A well-formed image: the header, the string table right after it, the records.
WellFormedImage(table) ==
    [i \in 1..StringIdsSizeAt |-> 0] \o pack_u32(Len(table)) \o pack_u32(HeaderSize)
        \o [i \in 1..(HeaderSize - StringIdsOffAt - 4) |-> 0]
        \o TableSection(table, 1) \o DataSection(1)

\* The image, or what is left of it: cut inside the header, inside the string
\* table (with entries), or inside the text of the last record.
BuildImage(table, cut) ==
    LET img == WellFormedImage(table)
    IN IF cut = "header" THEN SubSeq(img, 1, StringIdsOffAt + 2)
       ELSE IF cut = "table" THEN SubSeq(img, 1, HeaderSize + 4 * Len(table) - 1)
       ELSE IF cut = "record" THEN SubSeq(img, 1, Len(img) - 2)
       ELSE img

NoUleb == [ok |-> FALSE, result |-> NoValue, offset |-> NoValue]
NoUlebIn == [value |-> NoValue, lead |-> NoValue, trail |-> NoValue, cut |-> NoValue]

DexInit ==
    /\ data = <<>>
    /\ header = EmptyHeader
    /\ string_ids = <<>>
    /\ strings = <<>>
    /\ dex_pc = "none"
    /\ dex_parses = 0
    /\ dex_table = <<>>
    /\ dex_cut = "none"
    /\ uleb_in = NoUlebIn
    /\ uleb_ret = NoUleb

\* DEXParser(data) over the image built from table and cut: the one parser of
\* a behaviour
NewParser(table, cut) ==
    /\ dex_pc = "none"
    /\ data' = BuildImage(table, cut)
    /\ header' = EmptyHeader
    /\ string_ids' = <<>>
    /\ strings' = <<>>
    /\ dex_pc' = "fresh"
    /\ dex_parses' = 0
    /\ dex_table' = table
    /\ dex_cut' = cut
    /\ UNCHANGED <<uleb_in, uleb_ret>>

\* parse(): parse_header, parse_string_ids, parse_strings; an exception ends it
\* and leaves the fields as they are at that point
Parse ==
    /\ dex_pc # "none"
    /\ dex_parses < MaxParses
    /\ dex_parses' = dex_parses + 1
    /\ LET h == parse_header(data)
           ids == parse_string_ids(data, h.header.string_ids_off,
                                   h.header.string_ids_size, string_ids)
           strs == parse_strings(data, ids.ids, 1, strings)
       IN IF ~h.ok
            THEN /\ dex_pc' = "error"
                 /\ UNCHANGED <<header, string_ids, strings>>
          ELSE IF ~ids.ok
            THEN /\ dex_pc' = "error"
                 /\ header' = h.header
                 /\ string_ids' = ids.ids
                 /\ UNCHANGED strings
          ELSE /\ dex_pc' = IF strs.ok THEN "parsed" ELSE "error"
               /\ header' = h.header
               /\ string_ids' = ids.ids
               /\ strings' = strs.strings
    /\ UNCHANGED <<data, dex_table, dex_cut, uleb_in, uleb_ret>>

\* Values given to read_uleb128: the ends of the 1-, 2-, 3- and 4-byte ranges.
UlebValues == {0, 1, 127, 128, 129, 255, 300, 16383, 16384, 2097151, 2097152, 268435455}
UlebLeads == 0..2

\* the encoding of v behind `lead` other bytes, `cut` bytes short if cut > 0,
\* followed by `trail` other bytes if whole
UlebBuffer(v, lead, trail, cut) ==
    [i \in 1..lead |-> 255]
        \o SubSeq(uleb128(v), 1, Len(uleb128(v)) - cut)
        \o [i \in 1..(IF cut = 0 THEN trail ELSE 0) |-> 255]

\* DEXParser(buffer).read_uleb128(lead)
ReadUleb(v, lead, trail, cut) ==
    /\ data' = UlebBuffer(v, lead, trail, cut)
    /\ uleb_in' = [value |-> v, lead |-> lead, trail |-> trail, cut |-> cut]
    /\ uleb_ret' = read_uleb128(data', lead)
    /\ header' = EmptyHeader
    /\ string_ids' = <<>>
    /\ strings' = <<>>
    /\ dex_pc' = "fresh"
    /\ dex_parses' = 0
    /\ dex_table' = <<>>
    /\ dex_cut' = "none"

(***************************************************************************)
(* validate_and_clean_apks: apk_analysis_core.py                           *)
(***************************************************************************)

\* Files in the cache directory.
NumFiles == 3

FileNames == 1..NumFiles
\* A container is sound, has a bad directory record (zipfile.ZipFile raises
\* BadZipFile), or has a member whose checksum does not match.
Containers == {"valid", "bad_directory", "crc_mismatch"}

\* zipfile.ZipFile(apk_path, 'r') raises BadZipFile
ZipFileRaises(c) == c = "bad_directory"

\* zip_ref.testzip(): the name of the first bad member, or None; it catches the
\* BadZipFile of a failed member itself
testzip(c) == IF c = "crc_mismatch" THEN "member" ELSE "None"

\* the except zipfile.BadZipFile clause is entered: the value testzip returns
\* is not looked at
MovedToTrash(f) == q_files[f].apk /\ ZipFileRaises(q_files[f].cond)

QInit ==
    /\ q_files \in [FileNames -> [apk : BOOLEAN, cond : Containers]]
    /\ q_where = [f \in FileNames |-> "cache"]
    /\ q_pc = "idle"

QIdle ==
    /\ q_files = [f \in FileNames |-> [apk |-> TRUE, cond |-> "valid"]]
    /\ q_where = [f \in FileNames |-> "cache"]
    /\ q_pc = "idle"

\* validate_and_clean_apks(universal_cache_dir, trash_dir)
ValidateAndCleanApks ==
    /\ q_pc = "idle"
    /\ q_where' = [f \in FileNames |->
                      IF q_where[f] = "cache" /\ MovedToTrash(f) THEN "trash" ELSE q_where[f]]
    /\ q_pc' = "done"
    /\ UNCHANGED q_files

(***************************************************************************)
(* download_apks (precomputed_connectivity_logic.py and                    *)
(* user_apk_analysis_logic.py), download_apk_worker, process_file and      *)
(* process_package_apks (apk_analysis_core.py)                             *)
(***************************************************************************)

\* Artifacts sampled for a package.
MaxTasks == 3

\* The session of the batch and the thread that runs it.
BatchSession == 1
Worker == 1

\* download_apk returns the path, returns None after its cycles, or raises;
\* after the last two no usable file is at the cache path.
DownloadOutcomes == {"path", "exhausted", "raised"}
\* process_file on a file that exists: rows, an error inside
\* extract_apk_features (logged there, an empty list comes back), or an error
\* in process_file itself (logged, None comes back).
ExtractOutcomes == {"rows", "extract_error", "process_error"}

\* A plausible slip: the worker lets the exception of download_apk through.
download_apk_worker_bare(o) ==
    IF o = "path" THEN "path" ELSE IF o = "raised" THEN "raise" ELSE "None"

\* download_apk_worker: the path, or None when download_apk returned None or raised
download_apk_worker(o) == IF o = "path" THEN "path" ELSE "None"

\* process_file for artifact i: None for a missing file or an error of its
\* own, else the rows extract_apk_features found
process_file(i, dl, ex) ==
    IF dl # "path" THEN [none |-> TRUE, rows |-> <<>>]
    ELSE IF ex = "process_error" THEN [none |-> TRUE, rows |-> <<>>]
    ELSE IF ex = "extract_error" THEN [none |-> FALSE, rows |-> <<>>]
    ELSE [none |-> FALSE, rows |-> <<i>>]

\* all_data: the rows of the results that are not None, in the order of apk_log
RECURSIVE collect(_, _, _)
collect(dls, exs, i) ==
    IF i > Len(dls) THEN <<>>
    ELSE LET r == process_file(i, dls[i], exs[i])
         IN (IF r.none THEN <<>> ELSE r.rows) \o collect(dls, exs, i + 1)

BInit ==
    /\ b_variant = "precomputed"
    /\ b_pc = "idle"
    /\ b_n = 0
    /\ b_polls = 0
    /\ b_poll_true = FALSE
    /\ b_outcomes = <<>>
    /\ b_ret = "none"
    /\ b_results = <<>>
    /\ b_extract = <<>>
    /\ b_data = <<>>

\* process_package registers the thread (process_apks does, for user_apk) and
\* calls download_apks([package_name], ...)
BatchStart(variant, n) ==
    /\ b_pc = "idle"
    /\ RegisterProcess(BatchSession, Worker)
    /\ b_variant' = variant
    /\ b_n' = n
    /\ b_pc' = IF variant = "precomputed" THEN "package" ELSE "poll"
    /\ UNCHANGED <<b_polls, b_poll_true, b_outcomes, b_ret, b_results, b_extract, b_data>>

\* another request thread of the same session registers itself (the session id
\* of user_apk is a uuid its process_apks makes up: no other thread has it)
Supersede(t) ==
    /\ b_pc \notin {"idle", "returned", "processed"}
    /\ b_variant = "precomputed"
    /\ t # Worker
    /\ process_registry[BatchSession] = Worker
    /\ RegisterProcess(BatchSession, t)
    /\ UNCHANGED bVars

\* precomputed: the check in front of the package, then the task list is built
BatchPollPackage ==
    /\ b_pc = "package"
    /\ ShouldCancel(BatchSession, Worker)
    /\ b_polls' = b_polls + 1
    /\ IF sc_ret'.val
         THEN /\ b_pc' = "returned"
              /\ b_ret' = "None"
              /\ b_poll_true' = TRUE
         ELSE /\ b_pc' = "poll"
              /\ UNCHANGED <<b_ret, b_poll_true>>
    /\ UNCHANGED <<b_variant, b_n, b_outcomes, b_results, b_extract, b_data>>

\* the check in front of an artifact. precomputed: session_should_cancel;
\* user_apk: threading.current_thread() != threading.current_thread()
BatchPoll ==
    /\ b_pc = "poll"
    /\ Len(b_outcomes) < b_n
    /\ IF b_variant = "precomputed"
         THEN /\ ShouldCancel(BatchSession, Worker)
              /\ b_polls' = b_polls + 1
              /\ IF sc_ret'.val
                   THEN /\ b_pc' = "returned"
                        /\ b_ret' = "None"
                        /\ b_poll_true' = TRUE
                   ELSE /\ b_pc' = "download"
                        /\ UNCHANGED <<b_ret, b_poll_true>>
         ELSE /\ b_pc' = "download"
              /\ UNCHANGED <<canVars, b_polls, b_ret, b_poll_true>>
    /\ UNCHANGED <<b_variant, b_n, b_outcomes, b_results, b_extract, b_data>>

\* the download of the next artifact, from its start to its end. precomputed:
\* download_apk_worker, appended if truthy; user_apk: download_apk in a try,
\* appended unless it raised
BatchDownload(o) ==
    /\ b_pc = "download"
    /\ b_outcomes' = Append(b_outcomes, o)
    /\ LET i == Len(b_outcomes) + 1
           w == download_apk_worker(o)
       IN IF b_variant = "precomputed"
            THEN IF w = "raise"
                   THEN /\ b_pc' = "returned"
                        /\ b_ret' = "raised"
                        /\ UNCHANGED b_results
                   ELSE /\ b_pc' = "poll"
                        /\ b_results' = IF w = "path" THEN Append(b_results, i) ELSE b_results
                        /\ UNCHANGED b_ret
            ELSE /\ b_pc' = "poll"
                 /\ b_results' = IF o # "raised" THEN Append(b_results, i) ELSE b_results
                 /\ UNCHANGED b_ret
    /\ UNCHANGED <<canVars, b_variant, b_n, b_polls, b_poll_true, b_extract, b_data>>

\* the loop is over: apk_log.json is written, the list is returned
BatchReturn ==
    /\ b_pc = "poll"
    /\ Len(b_outcomes) = b_n
    /\ b_pc' = "returned"
    /\ b_ret' = "list"
    /\ UNCHANGED <<canVars, b_variant, b_n, b_polls, b_poll_true, b_outcomes, b_results,
                   b_extract, b_data>>

\* process_package_apks over the artifacts of apk_log.json; process_package
\* (precomputed) calls it only with a list that is not empty
ProcessPackageApks(exs) ==
    /\ b_pc = "returned"
    /\ b_ret = "list"
    /\ b_variant = "precomputed" => b_results # <<>>
    /\ b_extract' = exs
    /\ b_data' = collect(b_outcomes, exs, 1)
    /\ b_pc' = "processed"
    /\ UNCHANGED <<canVars, b_variant, b_n, b_polls, b_poll_true, b_outcomes, b_ret,
                   b_results>>

(***************************************************************************)
(* An analysis request: the callback of historical_connectivity_callbacks  *)
(* calls process_apks, which calls process_package, which calls            *)
(* initialize_database (precomputed_connectivity_logic.py), which calls    *)
(* execute_query (db_connection.py)                                        *)
(***************************************************************************)

\* How the rest of process_package ends once the database is initialised.
WorkOutcomes == {"figures", "no_data", "work_error", "cancelled"}

\* What the callback shows for the way process_apks ended. An exception inside
\* the try of process_apks is logged there and process_apks returns results,
\* which is then empty: "No data found", "Analysis complete!". An exception
\* outside of it, and the None of a cancelled run, end in the except of the
\* callback: "An error occurred".
Shown(cause) ==
    IF cause = "none" THEN "figures"
    ELSE IF cause \in {"bad_dates", "cancelled"} THEN "error"
    ELSE "empty"

ReqInit ==
    /\ r_pc = [t \in Threads |-> "idle"]
    /\ r_cause = [t \in Threads |-> "none"]
    /\ r_out = [t \in Threads |-> "none"]

\* the request of thread t ends because of cause
Ended(t, cause) ==
    /\ r_pc' = [r_pc EXCEPT ![t] = "done"]
    /\ r_cause' = [r_cause EXCEPT ![t] = cause]
    /\ r_out' = [r_out EXCEPT ![t] = Shown(cause)]

\* the request of thread t goes on at stage
GoesOn(t, stage) ==
    /\ r_pc' = [r_pc EXCEPT ![t] = stage]
    /\ UNCHANGED <<r_cause, r_out>>

\* the callback calls process_apks: the dates are parsed, outside the try
ReqStart(t, dates_ok) ==
    /\ r_pc[t] = "idle"
    /\ IF dates_ok THEN GoesOn(t, "init_db") ELSE Ended(t, "bad_dates")
    /\ UNCHANGED poolVars

\* initialize_database: execute_query calls get_connection(); what it raises
\* passes through execute_query (whose release_connection(None) finds nothing
\* to release) up to the except Exception of process_apks
ReqGetConnection(t, connect_ok) ==
    /\ r_pc[t] = "init_db"
    /\ GetConnection(t, connect_ok)
    /\ IF pool_ret'.via = "exhausted" THEN Ended(t, "pool_exhausted")
       ELSE IF pool_ret'.via = "connect_error" THEN Ended(t, "connect_error")
       ELSE GoesOn(t, "query")

\* execute_query: the statement and the commit, then release_connection(conn)
ReqQuery(t, query_ok) ==
    /\ r_pc[t] = "query"
    /\ ReleaseConnection(t, in_use[t])
    /\ IF query_ok THEN GoesOn(t, "work") ELSE Ended(t, "query_error")

\* the rest of process_package: downloads, extraction, plots
ReqWork(t, o) ==
    /\ r_pc[t] = "work"
    /\ Ended(t, IF o = "figures" THEN "none" ELSE o)
    /\ UNCHANGED poolVars

(***************************************************************************)
(* A request thread: clean_sessions_middleware (index.py) runs             *)
(* clean_stale_sessions before the request, then process_apks_callback     *)
(* (historical_connectivity_callbacks.py, user_apk_analysis_callbacks.py)  *)
(* runs has_capacity, register_session, the analysis and remove_session.   *)
(* Threads switch between any two statements.                              *)
(***************************************************************************)

CallbackKinds == {"historical", "user_apk"}

\* how the body of the callback's try block ends: process_apks or
\* process_uploaded_apks returns results or None, or anything in it raises
TryOutcomes == {"results", "None", "raises"}

\* the branch of the callback that runs after the analysis: the historical
\* callback tests `data_type not in results`, a TypeError on None
remove_branch(kind, outcome) ==
    IF outcome = "raises" THEN "except"
    ELSE IF outcome = "results" THEN "try"
    ELSE IF kind = "user_apk" THEN "none"
    ELSE "except"

\* A plausible slip: the entry is kept.
without_active_session_keep(s) == active_sessions

\* del active_sessions[session_id]
without_active_session(s) == Restrict(active_sessions, DOMAIN active_sessions \ {s})

\* the analyses that are executing
Executing == {h \in Handlers : cb_pc[h] = "work"}

SessInit ==
    /\ cb_pc = [h \in Handlers |-> "idle"]
    /\ cb_sid = [h \in Handlers |-> NoValue]
    /\ cb_path = [h \in Handlers |-> "try"]
    /\ cb_end = [h \in Handlers |-> "none"]
    /\ sw_time = [h \in Handlers |-> 0]
    /\ sw_size = [h \in Handlers |-> 0]
    /\ sw_pos = [h \in Handlers |-> 0]
    /\ sw_stale = [h \in Handlers |-> <<>>]
    /\ raced = FALSE

\* the request of thread h ends; its locals are gone
EndRequest(h, how) ==
    /\ cb_pc' = [cb_pc EXCEPT ![h] = "idle"]
    /\ cb_end' = [cb_end EXCEPT ![h] = how]
    /\ cb_sid' = [cb_sid EXCEPT ![h] = NoValue]
    /\ cb_path' = [cb_path EXCEPT ![h] = "try"]
    /\ sw_time' = [sw_time EXCEPT ![h] = 0]
    /\ sw_size' = [sw_size EXCEPT ![h] = 0]
    /\ sw_pos' = [sw_pos EXCEPT ![h] = 0]
    /\ sw_stale' = [sw_stale EXCEPT ![h] = <<>>]

\* a request arrives on thread h; clean_stale_sessions reads the clock and
\* starts iterating active_sessions.items()
BeginRequest(h) ==
    /\ cb_pc[h] = "idle"
    /\ cb_pc' = [cb_pc EXCEPT ![h] = "scan"]
    /\ cb_end' = [cb_end EXCEPT ![h] = "none"]
    /\ sw_time' = [sw_time EXCEPT ![h] = now]
    /\ sw_size' = [sw_size EXCEPT ![h] = Cardinality(DOMAIN active_sessions)]
    /\ UNCHANGED <<active_sessions, next_sid, cb_sid, cb_path, sw_pos, sw_stale, raced>>

\* one turn of `for session_id, session_data in active_sessions.items()`:
\* the iterator raises RuntimeError when the dict changed size, else yields
\* the next key in insertion order (session ids are numbered by insertion)
ScanStep(h) ==
    /\ cb_pc[h] = "scan"
    /\ LET rest == {k \in DOMAIN active_sessions : k > sw_pos[h]}
       IN  IF Cardinality(DOMAIN active_sessions) # sw_size[h]
             THEN EndRequest(h, "RuntimeError")
           ELSE IF rest = {}
             THEN /\ cb_pc' = [cb_pc EXCEPT ![h] = "del"]
                  /\ sw_time' = [sw_time EXCEPT ![h] = 0]
                  /\ sw_size' = [sw_size EXCEPT ![h] = 0]
                  /\ sw_pos' = [sw_pos EXCEPT ![h] = 0]
                  /\ UNCHANGED <<cb_sid, cb_path, cb_end, sw_stale>>
           ELSE LET s == CHOOSE k \in rest : \A j \in rest : k <= j
                IN  /\ sw_pos' = [sw_pos EXCEPT ![h] = s]
                    /\ sw_stale' = [sw_stale EXCEPT ![h] =
                           IF sw_time[h] - active_sessions[s] > SESSION_TIMEOUT
                             THEN Append(@, s) ELSE @]
                    /\ UNCHANGED <<cb_pc, cb_sid, cb_path, cb_end, sw_time, sw_size>>
    /\ UNCHANGED <<active_sessions, next_sid, raced>>

\* one turn of `for session_id in stale_sessions: del active_sessions[session_id]`,
\* a KeyError when the key is gone; after the loop the request itself runs:
\* a process_apks_callback or anything else
DelStep(h, is_callback) ==
    /\ cb_pc[h] = "del"
    /\ IF sw_stale[h] = <<>>
         THEN /\ IF is_callback
                   THEN /\ cb_pc' = [cb_pc EXCEPT ![h] = "entry"]
                        /\ UNCHANGED <<cb_sid, cb_path, cb_end, sw_time, sw_size, sw_pos,
                                       sw_stale>>
                   ELSE EndRequest(h, "other")
              /\ UNCHANGED active_sessions
       ELSE IF Head(sw_stale[h]) \in DOMAIN active_sessions
         THEN /\ active_sessions' = without_active_session(Head(sw_stale[h]))
              /\ sw_stale' = [sw_stale EXCEPT ![h] = Tail(@)]
              /\ UNCHANGED <<cb_pc, cb_sid, cb_path, cb_end, sw_time, sw_size, sw_pos>>
       ELSE /\ EndRequest(h, "KeyError")
            /\ UNCHANGED active_sessions
    /\ UNCHANGED <<next_sid, raced>>

\* process_apks_callback: if not has_capacity(): return the busy answer
CbHasCapacity(h) ==
    /\ cb_pc[h] = "entry"
    /\ IF has_capacity
         THEN /\ cb_pc' = [cb_pc EXCEPT ![h] = "admitted"]
              /\ UNCHANGED <<cb_sid, cb_path, cb_end, sw_time, sw_size, sw_pos, sw_stale>>
         ELSE EndRequest(h, "busy")
    /\ UNCHANGED <<active_sessions, next_sid, raced>>

\* register_session(session_id, data); raced records that the capacity the
\* thread saw was gone by now, which needs another thread in between
CbRegisterSession(h) ==
    /\ cb_pc[h] = "admitted"
    /\ next_sid <= MaxRequests
    /\ active_sessions' =
           [s \in DOMAIN active_sessions \cup {next_sid} |->
               IF s = next_sid THEN now ELSE active_sessions[s]]
    /\ cb_sid' = [cb_sid EXCEPT ![h] = next_sid]
    /\ next_sid' = next_sid + 1
    /\ raced' = (raced \/ ~has_capacity)
    /\ cb_pc' = [cb_pc EXCEPT ![h] = "work"]
    /\ UNCHANGED <<cb_path, cb_end, sw_time, sw_size, sw_pos, sw_stale>>

\* the analysis and the rendering of its results end, in either callback
CbProcessApks(h, kind, outcome) ==
    /\ cb_pc[h] = "work"
    /\ cb_path' = [cb_path EXCEPT ![h] = remove_branch(kind, outcome)]
    /\ cb_pc' = [cb_pc EXCEPT ![h] = "rm_check"]
    /\ UNCHANGED <<active_sessions, next_sid, cb_sid, cb_end, sw_time, sw_size, sw_pos,
                   sw_stale, raced>>

\* remove_session: if session_id in active_sessions ... else return False,
\* and the callback returns
CbRemoveCheck(h) ==
    /\ cb_pc[h] = "rm_check"
    /\ IF cb_sid[h] \in DOMAIN active_sessions
         THEN /\ cb_pc' = [cb_pc EXCEPT ![h] = "rm_del"]
              /\ UNCHANGED <<cb_sid, cb_path, cb_end, sw_time, sw_size, sw_pos, sw_stale>>
         ELSE EndRequest(h, "False")
    /\ UNCHANGED <<active_sessions, next_sid, raced>>

\* remove_session: del active_sessions[session_id]; return True. A KeyError
\* in the try block goes to the except branch, which calls remove_session
\* again; a KeyError in the except branch leaves the callback
CbRemoveDel(h) ==
    /\ cb_pc[h] = "rm_del"
    /\ IF cb_sid[h] \in DOMAIN active_sessions
         THEN /\ active_sessions' = without_active_session(cb_sid[h])
              /\ EndRequest(h, "True")
       ELSE IF cb_path[h] = "except"
         THEN /\ EndRequest(h, "raised")
              /\ UNCHANGED active_sessions
       ELSE /\ cb_path' = [cb_path EXCEPT ![h] = "except"]
            /\ cb_pc' = [cb_pc EXCEPT ![h] = "rm_check"]
            /\ UNCHANGED <<active_sessions, cb_sid, cb_end, sw_time, sw_size, sw_pos,
                           sw_stale>>
    /\ UNCHANGED <<next_sid, raced>>

(***************************************************************************)
(* extract_apk_features with the built-in parser: apk_analysis_core.py     *)
(***************************************************************************)

\* Images of one artifact, calls of extract_apk_features on it.
MaxImages == 2
MaxCalls == 2

\* The images an artifact is made of: whole ones and ones cut short.
ImageChoices ==
    { [table |-> <<2>>, cut |-> "none"],
      [table |-> <<3, 5>>, cut |-> "none"],
      [table |-> <<2>>, cut |-> "table"],
      [table |-> <<2>>, cut |-> "header"] }

Artifacts == UNION {[1..n -> ImageChoices] : n \in 0..MaxImages}

\* parser = DEXParser(dex_data); parser.parse(): whether it returned, and
\* parser.strings
decode_image(img) ==
    LET d == BuildImage(img.table, img.cut)
        h == parse_header(d)
        ids == IF h.ok
                 THEN parse_string_ids(d, h.header.string_ids_off,
                                       h.header.string_ids_size, <<>>)
                 ELSE [ok |-> FALSE, ids |-> <<>>]
        strs == IF ids.ok THEN parse_strings(d, ids.ids, 1, <<>>)
                ELSE [ok |-> FALSE, strings |-> <<>>]
    IN  [ok |-> strs.ok, strings |-> strs.strings]

\* what the strings of an image add to data: the matches of the URL pattern;
\* each string of the images above stands for one match
indicators(strs) == strs

\* the indicators of the images of imgs that decode, in container order
RECURSIVE GoodIndicators(_)
GoodIndicators(imgs) ==
    IF imgs = <<>> THEN <<>>
    ELSE LET r == decode_image(Head(imgs))
         IN  (IF r.ok THEN indicators(r.strings) ELSE <<>>) \o GoodIndicators(Tail(imgs))

NoJson == [exists |-> FALSE, data |-> <<>>]

ExInit ==
    /\ x_zip_ok \in BOOLEAN
    /\ x_images \in Artifacts
    /\ x_json = NoJson
    /\ x_pc = "idle"
    /\ x_use_cache = FALSE
    /\ x_i = 0
    /\ x_data = <<>>
    /\ x_via = "none"
    /\ x_ret = <<>>
    /\ x_calls = 0

\* the artifact of the specifications that do not extract
ExIdle == ExInit /\ x_zip_ok /\ x_images = <<>>

\* extract_apk_features(file_path, 'urls', use_cache_json, 'digisilk') up to
\* the loop: the cached JSON is returned if there is one and it is asked for;
\* else extract_apk_dex_files reads the container, and an error of it is
\* caught with data still empty
ExtractStart(use_cache_json) ==
    /\ x_pc \in {"idle", "done"}
    /\ x_calls < MaxCalls
    /\ x_calls' = x_calls + 1
    /\ x_use_cache' = use_cache_json
    /\ x_data' = <<>>
    /\ x_i' = 0
    /\ IF x_json.exists /\ use_cache_json
         THEN /\ x_pc' = "done"
              /\ x_via' = "json"
              /\ x_ret' = x_json.data
         ELSE /\ x_pc' = IF x_zip_ok THEN "loop" ELSE "write"
              /\ x_via' = "decoded"
              /\ x_ret' = <<>>
    /\ UNCHANGED <<x_zip_ok, x_images, x_json>>

\* one turn of `for dex_data in dex_files`: an exception of parse() leaves
\* the loop for the except branch
ExtractImage ==
    /\ x_pc = "loop"
    /\ IF x_i = Len(x_images)
         THEN /\ x_pc' = "write"
              /\ UNCHANGED <<x_i, x_data>>
         ELSE LET r == decode_image(x_images[x_i + 1])
              IN  IF r.ok
                    THEN /\ x_i' = x_i + 1
                         /\ x_data' = x_data \o indicators(r.strings)
                         /\ x_pc' = x_pc
                    ELSE /\ x_pc' = "write"
                         /\ UNCHANGED <<x_i, x_data>>
    /\ UNCHANGED <<x_zip_ok, x_images, x_json, x_use_cache, x_via, x_ret, x_calls>>

\* if use_cache_json: json.dump(data, json_file); return data
ExtractReturn ==
    /\ x_pc = "write"
    /\ x_json' = IF x_use_cache THEN [exists |-> TRUE, data |-> x_data] ELSE x_json
    /\ x_ret' = x_data
    /\ x_pc' = "done"
    /\ UNCHANGED <<x_zip_ok, x_images, x_use_cache, x_i, x_data, x_via, x_calls>>

(***************************************************************************)
(* The versions download_apks (precomputed_connectivity_logic.py) picks    *)
(* for a package                                                           *)
(***************************************************************************)

\* config.MAX_VERSIONS, the largest desired_versions the form asks for
MAX_VERSIONS == 12
\* Candidate versions of a package in the date range.
MaxCandidates == 13

\* Python's a // b for a >= 0; b = 0 raises ZeroDivisionError (here -1)
DivError == -1
floor_div(a, b) == IF b = 0 THEN DivError ELSE a \div b

\* max(1, total_versions // desired_versions)
calculate_sampling_frequency(total_versions, desired_versions) ==
    LET q == floor_div(total_versions, desired_versions)
    IN  IF q = DivError THEN DivError ELSE Max(1, q)

\* list(range(1, m + 1))[::step]: every step-th of the first m versions
RECURSIVE every_nth(_, _, _)
every_nth(i, m, step) ==
    IF i > m THEN <<>> ELSE <<i>> \o every_nth(i + step, m, step)

SampInit ==
    /\ s_n \in 0..MaxCandidates
    /\ s_desired \in 1..MAX_VERSIONS
    /\ s_pc = "idle"
    /\ s_tasks = <<>>
    /\ s_raised = FALSE

SampIdle == SampInit /\ s_n = 0 /\ s_desired = 1

\* download_apks for one package whose versions, oldest first, are 1..s_n:
\* the latest, then the sampled earlier ones; download_tasks is s_tasks
SelectVersions ==
    /\ s_pc = "idle"
    /\ s_pc' = "done"
    /\ IF s_n = 0
         THEN /\ s_tasks' = <<>>
              /\ s_raised' = FALSE
         ELSE LET sampling_frequency ==
                      calculate_sampling_frequency(s_n - 1, s_desired - 1)
              IN  IF sampling_frequency = DivError
                    THEN /\ s_tasks' = <<s_n>>
                         /\ s_raised' = TRUE
                    ELSE /\ s_tasks' = <<s_n>> \o every_nth(1, s_n - 1, sampling_frequency)
                         /\ s_raised' = FALSE
    /\ UNCHANGED <<s_n, s_desired>>

(***************************************************************************)
(* The analysis flows over the process registry: process_apks,             *)
(* process_package and download_apks of precomputed_connectivity_logic.py, *)
(* process_uploaded_apks of user_apk_analysis_logic.py                     *)
(***************************************************************************)

\* Artifacts of one request.
MaxItems == 2

FlowKinds == {"precomputed", "uploaded"}

\* results has a key per data type: urls, domains, subdomains
DataTypes == 3

Site(op, fn, arg) == [op |-> op, fn |-> fn, arg |-> arg]

\* The bindings of the name the flow's module polls with, in source order:
\* precomputed_connectivity_logic imports ui_logger's should_cancel as
\* session_should_cancel; user_apk_analysis_logic imports should_cancel and
\* further down defines should_cancel() with no parameter.
Bindings(kind) ==
    IF kind = "precomputed" THEN <<"ui_logger.should_cancel">>
    ELSE <<"ui_logger.should_cancel", "def should_cancel()">>

\* the binding that holds when a function of the module runs: the last one
bound_should_cancel(kind) == Bindings(kind)[Len(Bindings(kind))]

\* the call <name>(session_id) of a flow of this kind, made by thread t
poll(kind, s, t) ==
    IF bound_should_cancel(kind) = "def should_cancel()" THEN "TypeError"
    ELSE IF should_cancel(s, t) THEN "True" ELSE "False"

\* the polls of process_uploaded_apks for one data type: one in front of each
\* artifact, whose features are extracted after it, and one in front of the plot
DataTypeSites(n) ==
    [i \in 1..n |-> Site("item", "process_uploaded_apks", i)]
        \o <<Site("poll", "process_uploaded_apks", 0)>>

RECURSIVE Times(_, _)
Times(sites, k) == IF k = 0 THEN <<>> ELSE sites \o Times(sites, k - 1)

\* The registry calls of one request in the order its thread makes them, for n
\* artifacts. precomputed: process_apks registers and polls, process_package
\* registers, download_apks polls in front of the package and of each task,
\* process_package polls after the download, and unless nothing was downloaded
\* after the extraction and in front of each plot, process_apks polls last.
FlowSites(kind, n) ==
    IF kind = "precomputed"
      THEN <<Site("register", "process_apks", 0), Site("poll", "process_apks", 0),
             Site("register", "process_package", 0), Site("poll", "download_apks", 0)>>
           \o [i \in 1..n |-> Site("poll", "download_apks", i)]
           \o <<Site("poll", "process_package", 0)>>
           \o (IF n = 0 THEN <<>>
               ELSE <<Site("poll", "process_package", 0)>>
                    \o Times(<<Site("poll", "process_package", 0)>>, DataTypes))
           \o <<Site("poll", "process_apks", 0)>>
      ELSE <<Site("register", "process_uploaded_apks", 0)>> \o Times(DataTypeSites(n), DataTypes)

FlowInit ==
    /\ f_pc = [t \in Threads |-> "idle"]
    /\ f_kind = [t \in Threads |-> "precomputed"]
    /\ f_sid = [t \in Threads |-> NoValue]
    /\ f_n = [t \in Threads |-> 0]
    /\ f_at = [t \in Threads |-> 0]
    /\ f_seen = [t \in Threads |-> {}]
    /\ f_true = [t \in Threads |-> FALSE]
    /\ f_err = [t \in Threads |-> FALSE]
    /\ f_cancel = [t \in Threads |-> FALSE]
    /\ f_ret = [t \in Threads |-> "none"]
    /\ f_next = 1

\* the flow of thread t ends with this return value
FlowEnd(t, ret, was_true, raised) ==
    /\ f_pc' = [f_pc EXCEPT ![t] = "done"]
    /\ f_ret' = [f_ret EXCEPT ![t] = ret]
    /\ f_true' = [f_true EXCEPT ![t] = was_true]
    /\ f_err' = [f_err EXCEPT ![t] = raised]

\* the callback on thread t makes a fresh session id and calls the flow
FlowStart(t, kind, n) ==
    /\ f_pc[t] # "run"
    /\ f_next \in Sessions
    /\ kind = "uploaded" => n > 0
    /\ f_pc' = [f_pc EXCEPT ![t] = "run"]
    /\ f_kind' = [f_kind EXCEPT ![t] = kind]
    /\ f_sid' = [f_sid EXCEPT ![t] = f_next]
    /\ f_next' = f_next + 1
    /\ f_n' = [f_n EXCEPT ![t] = n]
    /\ f_at' = [f_at EXCEPT ![t] = 1]
    /\ f_seen' = [f_seen EXCEPT ![t] = {}]
    /\ f_true' = [f_true EXCEPT ![t] = FALSE]
    /\ f_err' = [f_err EXCEPT ![t] = FALSE]
    /\ f_cancel' = [f_cancel EXCEPT ![t] = FALSE]
    /\ f_ret' = [f_ret EXCEPT ![t] = "none"]
    /\ UNCHANGED canVars

\* register_process(session_id, threading.current_thread())
FlowRegister(t) ==
    /\ f_pc[t] = "run"
    /\ f_at[t] <= Len(FlowSites(f_kind[t], f_n[t]))
    /\ FlowSites(f_kind[t], f_n[t])[f_at[t]].op = "register"
    /\ RegisterProcess(f_sid[t], t)
    /\ f_at' = [f_at EXCEPT ![t] = @ + 1]
    /\ UNCHANGED <<f_pc, f_kind, f_sid, f_n, f_seen, f_true, f_err, f_cancel, f_ret, f_next>>

\* a poll of the flow: True returns None; an exception reaches the except of
\* process_uploaded_apks, which logs it and returns None; after False the flow
\* goes on, with the extraction of the artifact the poll stood in front of
FlowPoll(t) ==
    /\ f_pc[t] = "run"
    /\ f_at[t] <= Len(FlowSites(f_kind[t], f_n[t]))
    /\ LET site == FlowSites(f_kind[t], f_n[t])[f_at[t]]
           out == poll(f_kind[t], f_sid[t], t)
       IN /\ site.op \in {"poll", "item"}
          /\ IF out = "TypeError"
               THEN UNCHANGED canVars
               ELSE ShouldCancel(f_sid[t], t)
          /\ IF out = "False"
               THEN /\ f_at' = [f_at EXCEPT ![t] = @ + 1]
                    /\ f_seen' = [f_seen EXCEPT
                                     ![t] = IF site.op = "item" THEN @ \cup {site.arg} ELSE @]
                    /\ UNCHANGED <<f_pc, f_ret, f_true, f_err>>
               ELSE /\ FlowEnd(t, "None", out = "True", out = "TypeError")
                    /\ UNCHANGED <<f_at, f_seen>>
    /\ UNCHANGED <<f_kind, f_sid, f_n, f_cancel, f_next>>

\* every poll said False: the flow returns results
FlowReturn(t) ==
    /\ f_pc[t] = "run"
    /\ f_at[t] > Len(FlowSites(f_kind[t], f_n[t]))
    /\ FlowEnd(t, "results", FALSE, FALSE)
    /\ UNCHANGED <<canVars, f_kind, f_sid, f_n, f_at, f_seen, f_cancel, f_next>>

\* cancel_process(session_id = s), from any thread
FlowCancel(s) ==
    /\ CancelProcess(s)
    /\ f_cancel' = [t \in Threads |->
                       \/ f_cancel[t]
                       \/ /\ f_pc[t] = "run"
                          /\ f_sid[t] = s
                          /\ process_registry[s] # NoValue
                          /\ f_at[t] <= Len(FlowSites(f_kind[t], f_n[t]))]
    /\ UNCHANGED <<f_pc, f_kind, f_sid, f_n, f_at, f_seen, f_true, f_err, f_ret, f_next>>

(***************************************************************************)
(* Specifications                                                          *)
(***************************************************************************)

\* The subsystems a specification leaves alone stay as constructed.
CapIdle ==
    /\ HAS_PSUTIL = TRUE
    /\ probe_raises = FALSE
    /\ cpu_probe = 2
    /\ available_mb = 65536
    /\ MAX_CONCURRENT_USERS =
           get_max_concurrent_users(HAS_PSUTIL, probe_raises, cpu_probe, available_mb)

PoolIdle == PoolInit /\ max_connections = 1

\* the subsystems of the later sections
LateInit == SessInit /\ ExIdle /\ SampIdle /\ FlowInit

ExtInit == CanInit /\ DexInit /\ QIdle /\ BInit /\ ReqInit /\ LateInit

\* the frame of the registry's specification
canFrame == <<capVars, admVars, poolVars, dlVars, dexVars, qVars, bVars, reqVars, lateVars>>

\* every subsystem as constructed
AllIdle == CapIdle /\ AdmInit /\ PoolIdle /\ DlInit /\ ExtInit

\* the process registry under any calls by any threads

CancelNext ==
    \/ \E s \in Sessions, t \in Threads : RegisterProcess(s, t) /\ UNCHANGED canFrame
    \/ \E s \in Sessions \cup {NoValue}, t \in Threads :
           ShouldCancel(s, t) /\ UNCHANGED canFrame
    \/ \E s \in Sessions : CancelProcess(s) /\ UNCHANGED canFrame

CancelSpec == AllIdle /\ [][CancelNext]_vars

\* the frame of the parser's specifications
dexFrame == <<capVars, admVars, poolVars, dlVars, canVars, qVars, bVars, reqVars, lateVars>>

\* parsers over synthetic images, whole and cut short
DexNext ==
    \/ \E table \in Tables, cut \in Cuts : NewParser(table, cut) /\ UNCHANGED dexFrame
    \/ Parse /\ UNCHANGED dexFrame

DexSpec == AllIdle /\ [][DexNext]_vars

\* read_uleb128 over encodings, whole and cut short
UlebNext ==
    \E v \in UlebValues, lead \in UlebLeads, trail \in 0..1, cut \in 0..4 :
        /\ cut <= Len(uleb128(v))
        /\ ReadUleb(v, lead, trail, cut)
        /\ UNCHANGED dexFrame

UlebSpec == AllIdle /\ [][UlebNext]_vars

\* validate_and_clean_apks over every cache directory of NumFiles files
QSpecInit == CapIdle /\ AdmInit /\ PoolIdle /\ DlInit /\ CanInit /\ DexInit /\ QInit /\ BInit
                 /\ ReqInit /\ LateInit

qFrame == <<capVars, admVars, poolVars, dlVars, canVars, dexVars, bVars, reqVars, lateVars>>

QNext == ValidateAndCleanApks /\ UNCHANGED qFrame

QSpec == QSpecInit /\ [][QNext]_vars

\* the frame of the batch's specification (the registry is in its actions)
bFrame == <<capVars, admVars, poolVars, dlVars, dexVars, qVars, reqVars, lateVars>>

\* one batch of either download_apks, then process_package_apks, while other
\* threads may register for the session
BatchNext ==
    \/ \E variant \in {"precomputed", "user_apk"}, n \in 0..MaxTasks :
           BatchStart(variant, n) /\ UNCHANGED bFrame
    \/ \E t \in Threads : Supersede(t) /\ UNCHANGED bFrame
    \/ BatchPollPackage /\ UNCHANGED bFrame
    \/ BatchPoll /\ UNCHANGED bFrame
    \/ \E o \in DownloadOutcomes : BatchDownload(o) /\ UNCHANGED bFrame
    \/ BatchReturn /\ UNCHANGED bFrame
    \/ \E exs \in [1..b_n -> ExtractOutcomes] : ProcessPackageApks(exs) /\ UNCHANGED bFrame

BatchSpec == AllIdle /\ [][BatchNext]_vars

\* the frame of the requests' specification (the pool is in its actions)
reqFrame == <<capVars, admVars, dlVars, canVars, dexVars, qVars, bVars, lateVars>>

\* one request on each thread, over a pool of any size
ReqSpecInit == CapIdle /\ AdmInit /\ PoolInit /\ DlInit /\ CanInit /\ DexInit /\ QIdle /\ BInit
                   /\ ReqInit /\ LateInit

ReqNext ==
    \/ \E t \in Threads, dates_ok \in BOOLEAN : ReqStart(t, dates_ok) /\ UNCHANGED reqFrame
    \/ \E t \in Threads, connect_ok \in BOOLEAN :
           ReqGetConnection(t, connect_ok) /\ UNCHANGED reqFrame
    \/ \E t \in Threads, query_ok \in BOOLEAN : ReqQuery(t, query_ok) /\ UNCHANGED reqFrame
    \/ \E t \in Threads, o \in WorkOutcomes : ReqWork(t, o) /\ UNCHANGED reqFrame

ReqSpec == ReqSpecInit /\ [][ReqNext]_vars

\* get_max_concurrent_users on every host
CapSpecInit == CapInit /\ AdmInit /\ PoolIdle /\ DlInit /\ ExtInit

CapNext == LoadModule /\ UNCHANGED <<admVars, poolVars, dlVars, extVars>>

CapSpec == CapSpecInit /\ [][CapNext]_vars

\* the session registry under concurrent request handlers
AdmSpecInit == HostInit /\ AdmInit /\ PoolIdle /\ DlInit /\ ExtInit

AdmNext ==
    \/ Tick /\ UNCHANGED <<capVars, poolVars, dlVars, extVars>>
    \/ CleanStaleSessions /\ UNCHANGED <<capVars, poolVars, dlVars, extVars>>
    \/ \E h \in Handlers : HasCapacity(h) /\ UNCHANGED <<capVars, poolVars, dlVars, extVars>>
    \/ \E h \in Handlers : RegisterSession(h) /\ UNCHANGED <<capVars, poolVars, dlVars, extVars>>
    \/ \E h \in Handlers : RemoveSession(h) /\ UNCHANGED <<capVars, poolVars, dlVars, extVars>>

AdmSpec == AdmSpecInit /\ [][AdmNext]_vars

\* the frame of the request threads' specifications
sessFrame == <<now, ticks, pc, sid, reply, capVars, poolVars, dlVars, canVars, dexVars, qVars,
               bVars, reqVars, exVars, sampVars, flowVars>>

\* request threads over the registry while time passes
SessNext ==
    \/ Tick /\ UNCHANGED <<sessVars, capVars, poolVars, dlVars, extVars>>
    \/ \E h \in Handlers : BeginRequest(h) /\ UNCHANGED sessFrame
    \/ \E h \in Handlers : ScanStep(h) /\ UNCHANGED sessFrame
    \/ \E h \in Handlers, is_callback \in BOOLEAN :
           DelStep(h, is_callback) /\ UNCHANGED sessFrame
    \/ \E h \in Handlers : CbHasCapacity(h) /\ UNCHANGED sessFrame
    \/ \E h \in Handlers : CbRegisterSession(h) /\ UNCHANGED sessFrame
    \/ \E h \in Handlers, kind \in CallbackKinds, outcome \in TryOutcomes :
           CbProcessApks(h, kind, outcome) /\ UNCHANGED sessFrame
    \/ \E h \in Handlers : CbRemoveCheck(h) /\ UNCHANGED sessFrame
    \/ \E h \in Handlers : CbRemoveDel(h) /\ UNCHANGED sessFrame

SessSpec == AdmSpecInit /\ [][SessNext]_vars

\* One request thread step by step; the sweeps of all other threads, whose
\* deletions are the one effect they have on this thread's session, are
\* CleanStaleSessions.
Watched == 1

CbNext ==
    \/ Tick /\ UNCHANGED <<sessVars, capVars, poolVars, dlVars, extVars>>
    \/ CleanStaleSessions /\ UNCHANGED <<sessVars, capVars, poolVars, dlVars, extVars>>
    \/ BeginRequest(Watched) /\ UNCHANGED sessFrame
    \/ ScanStep(Watched) /\ UNCHANGED sessFrame
    \/ \E is_callback \in BOOLEAN : DelStep(Watched, is_callback) /\ UNCHANGED sessFrame
    \/ CbHasCapacity(Watched) /\ UNCHANGED sessFrame
    \/ CbRegisterSession(Watched) /\ UNCHANGED sessFrame
    \/ \E kind \in CallbackKinds, outcome \in TryOutcomes :
           CbProcessApks(Watched, kind, outcome) /\ UNCHANGED sessFrame
    \/ CbRemoveCheck(Watched) /\ UNCHANGED sessFrame
    \/ CbRemoveDel(Watched) /\ UNCHANGED sessFrame

\* a callback that has registered its session runs on to its return
CbRuns ==
    /\ \/ \E kind \in CallbackKinds, outcome \in TryOutcomes :
              CbProcessApks(Watched, kind, outcome)
       \/ CbRemoveCheck(Watched)
       \/ CbRemoveDel(Watched)
    /\ UNCHANGED sessFrame

CbSpec == AdmSpecInit /\ [][CbNext]_vars /\ WF_vars(CbRuns)

\* extract_apk_features, called again and again on one artifact
ExSpecInit ==
    CapIdle /\ AdmInit /\ PoolIdle /\ DlInit /\ CanInit /\ DexInit /\ QIdle /\ BInit /\ ReqInit
        /\ SessInit /\ ExInit /\ SampIdle /\ FlowInit

exFrame == <<capVars, admVars, poolVars, dlVars, canVars, dexVars, qVars, bVars, reqVars,
             sessVars, sampVars, flowVars>>

ExNext ==
    \/ \E use_cache_json \in BOOLEAN : ExtractStart(use_cache_json) /\ UNCHANGED exFrame
    \/ ExtractImage /\ UNCHANGED exFrame
    \/ ExtractReturn /\ UNCHANGED exFrame

ExSpec == ExSpecInit /\ [][ExNext]_vars

\* the selection for every package size and every desired_versions
SampSpecInit ==
    CapIdle /\ AdmInit /\ PoolIdle /\ DlInit /\ CanInit /\ DexInit /\ QIdle /\ BInit /\ ReqInit
        /\ SessInit /\ ExIdle /\ SampInit /\ FlowInit

SampNext ==
    SelectVersions
        /\ UNCHANGED <<capVars, admVars, poolVars, dlVars, canVars, dexVars, qVars, bVars,
                       reqVars, sessVars, exVars, flowVars>>

SampSpec == SampSpecInit /\ [][SampNext]_vars

\* the analysis flows of any threads, each request with a fresh session id,
\* and cancel_process calls for any session
flowFrame == <<capVars, admVars, poolVars, dlVars, dexVars, qVars, bVars, reqVars, sessVars,
               exVars, sampVars>>

FlowNext ==
    \/ \E t \in Threads, kind \in FlowKinds, n \in 0..MaxItems :
           FlowStart(t, kind, n) /\ UNCHANGED flowFrame
    \/ \E t \in Threads : FlowRegister(t) /\ UNCHANGED flowFrame
    \/ \E t \in Threads : FlowPoll(t) /\ UNCHANGED flowFrame
    \/ \E t \in Threads : FlowReturn(t) /\ UNCHANGED flowFrame
    \/ \E s \in Sessions : FlowCancel(s) /\ UNCHANGED flowFrame

FlowSpec == AllIdle /\ [][FlowNext]_vars

\* the connection pool under any calls by any threads
PoolSpecInit == CapIdle /\ AdmInit /\ PoolInit /\ DlInit /\ ExtInit

PoolNext ==
    \/ \E t \in Threads, connect_ok \in BOOLEAN :
           GetConnection(t, connect_ok) /\ UNCHANGED <<capVars, admVars, dlVars, extVars>>
    \/ \E t \in Threads, arg \in 0..created :
           ReleaseConnection(t, arg) /\ UNCHANGED <<capVars, admVars, dlVars, extVars>>
    \/ CloseAll /\ UNCHANGED <<capVars, admVars, dlVars, extVars>>

PoolSpec == PoolSpecInit /\ [][PoolNext]_vars

\* download_apk calls, one after the other, against any server
DlSpecInit == CapIdle /\ AdmInit /\ PoolIdle /\ DlInit /\ ExtInit

DlNext ==
    \/ \E h \in Hashes, mr \in 0..MaxRetries, rc \in 0..MaxCycles :
           DownloadStart(h, mr, rc) /\ UNCHANGED <<capVars, admVars, poolVars, extVars>>
    \/ \E r \in Responses : Request(r) /\ UNCHANGED <<capVars, admVars, poolVars, extVars>>
    \/ NextCycle /\ UNCHANGED <<capVars, admVars, poolVars, extVars>>
    \/ ReturnNone /\ UNCHANGED <<capVars, admVars, poolVars, extVars>>

DlSpec == DlSpecInit /\ [][DlNext]_vars

\* download_apk keeps running once called: its loop is never abandoned
DlLoop ==
    /\ (\E r \in Responses : Request(r)) \/ NextCycle \/ ReturnNone
    /\ UNCHANGED <<capVars, admVars, poolVars, extVars>>

DlFairSpec == DlSpecInit /\ [][DlNext]_vars /\ WF_vars(DlLoop)

(***************************************************************************)
(* Claims                                                                  *)
(***************************************************************************)

\* C1: under any interleaving of handlers that run has_capacity(), then
\* register_session(), then remove_session(), active_sessions never holds more
\* than MAX_CONCURRENT_USERS entries.
C1_NoOvershoot == Cardinality(DOMAIN active_sessions) <= MAX_CONCURRENT_USERS

\* C2: after any sequence of get_connection, release_connection and close_all
\* calls, the in-use connections, and the in-use and free connections together,
\* number at most max_connections.
C2_PoolBounded ==
    /\ Cardinality(DOMAIN in_use) <= max_connections
    /\ Cardinality(DOMAIN in_use) + Len(connections) <= max_connections

\* the pool is full again after a close_all, part of it free
C2_Witness ==
    /\ created > max_connections
    /\ connections # <<>>
    /\ DOMAIN in_use # {}
    /\ Cardinality(DOMAIN in_use) + Len(connections) = max_connections

\* C3: get_connection by an identity that holds nothing fails with the
\* pool-exhausted error, leaving the in-use map and the free list as they were,
\* when max_connections identities hold a connection and the free list is
\* empty; in every other state it succeeds (provided sqlite3.connect does).
C3_ExhaustedFailsFast ==
    [][\A t \in Threads, ok \in BOOLEAN :
          (GetConnection(t, ok) /\ t \notin DOMAIN in_use) =>
              IF Cardinality(DOMAIN in_use) = max_connections /\ connections = <<>>
                THEN /\ pool_ret'.via = "exhausted"
                     /\ in_use' = in_use
                     /\ connections' = connections
                     /\ created' = created
                ELSE ok => /\ pool_ret'.via \in {"reused", "created"}
                           /\ t \in DOMAIN in_use'
                           /\ in_use'[t] = pool_ret'.val
                           /\ DOMAIN in_use' = DOMAIN in_use \cup {t}]_vars

\* a new identity was just refused by a pool of two, both held
C3_Witness ==
    /\ pool_ret.op = "get"
    /\ pool_ret.via = "exhausted"
    /\ pool_ret.tid \notin DOMAIN in_use
    /\ max_connections = 2
    /\ Cardinality(DOMAIN in_use) = 2
    /\ connections = <<>>

\* C4: get_connection by an identity that already holds a connection returns
\* that connection and leaves the free list, the in-use map and the number of
\* connections opened unchanged, each time it is called.
C4_ReacquireIsIdempotent ==
    [][\A t \in Threads, ok \in BOOLEAN :
          (GetConnection(t, ok) /\ t \in DOMAIN in_use) =>
              /\ pool_ret'.val = in_use[t]
              /\ pool_ret'.via = "held"
              /\ connections' = connections
              /\ in_use' = in_use
              /\ created' = created]_vars

\* a holder asked again while a free connection was there for the taking
C4_Witness ==
    /\ pool_ret.op = "get"
    /\ pool_ret.via = "held"
    /\ pool_ret.tid \in DOMAIN in_use
    /\ in_use[pool_ret.tid] = pool_ret.val
    /\ connections # <<>>

\* C5: release_connection by an identity that holds a connection moves that
\* identity's connection to the free list and clears its reservation, so that
\* the next new identity to acquire is given that connection and none is opened;
\* by an identity that holds nothing it changes no pool state, with or without
\* a connection argument.
C5_ReleaseReturnsOwnConnection ==
    [][/\ \A t \in Threads, arg \in 0..created :
             ReleaseConnection(t, arg) =>
                 IF t \in DOMAIN in_use
                   THEN /\ connections' = Append(connections, in_use[t])
                        /\ in_use' = Restrict(in_use, DOMAIN in_use \ {t})
                        /\ created' = created
                   ELSE /\ connections' = connections
                        /\ in_use' = in_use
                        /\ created' = created
       /\ \A t \in Threads, ok \in BOOLEAN :
             (GetConnection(t, ok) /\ t \notin DOMAIN in_use /\ connections # <<>>) =>
                 /\ pool_ret'.val = connections[Len(connections)]
                 /\ in_use'[t] = connections[Len(connections)]
                 /\ created' = created]_vars

C7_CapacityFormula ==
    MAX_CONCURRENT_USERS # NoValue =>
        LET cpu_count == IF cpu_probe = NoValue THEN 4 ELSE cpu_probe
            by_cpu    == IF cpu_count - 1 < 1 THEN 1 ELSE cpu_count - 1
            by_memory == IF available_mb < 2 * 1536 THEN 1 ELSE available_mb \div 1536
            lesser    == IF by_cpu < by_memory THEN by_cpu ELSE by_memory
        IN  /\ MAX_CONCURRENT_USERS \in 1..20
            /\ (~HAS_PSUTIL \/ probe_raises) => MAX_CONCURRENT_USERS = 5
            /\ (HAS_PSUTIL /\ ~probe_raises /\ lesser <= 20) => MAX_CONCURRENT_USERS = lesser
            /\ (HAS_PSUTIL /\ ~probe_raises /\ lesser > 20) => MAX_CONCURRENT_USERS = 20

\* a host with 64 CPUs and 64 GiB free is capped at 20
C7_Witness ==
    /\ HAS_PSUTIL
    /\ ~probe_raises
    /\ cpu_probe = 64
    /\ available_mb = 65536
    /\ MAX_CONCURRENT_USERS = 20

\* C8: a download_apk call for a hash whose file exists in the cache, in
\* particular a hash an earlier call downloaded, returns the cached path and
\* issues no HTTP request.
C8_CacheHitIssuesNoRequest ==
    /\ [][\A h \in Hashes, mr \in 0..MaxRetries, rc \in 0..MaxCycles :
             (DownloadStart(h, mr, rc) /\ (cache[h] # NoFile \/ h \in d_fetched)) =>
                 /\ d_pc' = "done"
                 /\ d_result' = "hit"
                 /\ d_requests' = 0
                 /\ cache' = cache]_vars
    /\ [](d_result = "hit" => (d_pc = "done" /\ d_requests = 0))

\* a second call for a hash that was downloaded before ended as a cache hit
C8_Witness ==
    /\ d_pc = "done"
    /\ d_result = "hit"
    /\ d_hash \in d_fetched
    /\ d_requests = 0
    /\ d_max_retries >= 1
    /\ d_retry_cycles >= 1

\* C9: with max_retries >= 1, retry_cycles >= 1 and no cached file, a call all
\* of whose responses are failures never issues more than max_retries *
\* retry_cycles requests, ends, and ends with None after exactly that many.
C9_ExhaustsAfterAllAttempts ==
    /\ []((d_max_retries >= 1 /\ d_retry_cycles >= 1 /\ d_result # "hit"
              /\ d_failures = d_requests) =>
             /\ d_requests <= d_max_retries * d_retry_cycles
             /\ d_pc = "done" =>
                    /\ d_result = "exhausted"
                    /\ d_requests = d_max_retries * d_retry_cycles)
    /\ [](d_result = "exhausted" => d_failures = d_requests)
    /\ (d_pc = "loop") ~> (d_pc = "done")

\* an all-failing call: 2 cycles of 2 attempts, 4 requests, None
C9_Witness ==
    /\ d_pc = "done"
    /\ d_result = "exhausted"
    /\ d_max_retries = 2
    /\ d_retry_cycles = 2
    /\ d_requests = 4
    /\ d_failures = 4

\* C10: with no cached file, a call whose k-th response is the first 200 with
\* more than 1000 bytes (k <= max_retries * retry_cycles, the earlier ones
\* failures) returns the cache path after exactly k requests, and the file of
\* that response is then in the cache.
C10_FirstGoodResponseReturns ==
    /\ [][\A r \in Responses :
             (Request(r) /\ IsSuccess(r)) =>
                 /\ d_pc' = "done"
                 /\ d_result' = "path"
                 /\ d_requests' = d_requests + 1
                 /\ cache'[d_hash] = r.body]_vars
    /\ [](d_result = "path" =>
             /\ d_pc = "done"
             /\ d_requests = d_failures + 1
             /\ d_requests <= d_max_retries * d_retry_cycles
             /\ cache[d_hash] > 1000)
    /\ []((d_pc = "loop" /\ d_requests < d_max_retries * d_retry_cycles) =>
             d_cycle < d_retry_cycles)

\* a failure, then a 200 with 2000 bytes: returned after 2 requests, file cached
C10_Witness ==
    /\ d_pc = "done"
    /\ d_result = "path"
    /\ d_requests = 2
    /\ d_failures = 1
    /\ cache[d_hash] = 2000

\* C11: in every state reachable by download_apk calls (failed, exhausted and
\* interrupted ones included) every file at a cache path has passed the size
\* check (more than 1000 bytes), so the file a cache hit returns has passed it.
C11_CacheHoldsOnlyCheckedFiles ==
    /\ \A h \in Hashes : check_apk_in_cache(h) => SizeOk(cache[h])
    /\ (d_result = "hit") => SizeOk(cache[d_hash])

\* C17: a call of download_apk whose responses all failed (max_retries >= 1) and
\* that returned exhaustion after C cycles has slept C - 1 times: between the
\* cycles only, not after the last one.
C17_SleepsOnlyBetweenCycles ==
    (d_pc = "done" /\ d_result = "exhausted" /\ d_max_retries >= 1) =>
        d_sleeps = Max(d_retry_cycles - 1, 0)

\* C12: should_cancel(session, current) returns false when no identity is
\* registered for the session and when the registered identity is the asking
\* one, and true exactly when a different identity is registered; a session with
\* a registered identity tells exactly that identity to continue, and
\* register_process by a second identity supersedes the first.
C12_OnlyADifferentIdentityCancels ==
    /\ [][\A s \in Sessions \cup {NoValue}, t \in Threads :
             ShouldCancel(s, t) =>
                 sc_ret'.val = (/\ s # NoValue
                                /\ process_registry[s] # NoValue
                                /\ process_registry[s] # t)]_vars
    /\ [](\A s \in Sessions :
             process_registry[s] # NoValue =>
                 {t \in Threads : ~should_cancel(s, t)} = {process_registry[s]})
    /\ [][\A s \in Sessions, t \in Threads :
             RegisterProcess(s, t) =>
                 /\ process_registry'[s] = t
                 /\ \A u \in Threads : should_cancel(s, u)' = (u # t)]_vars

\* thread 1 was superseded in a session and, asking, is told to stop
C12_Witness ==
    /\ sc_ret.op = "should_cancel"
    /\ sc_ret.val = TRUE
    /\ sc_ret.thread = 1
    /\ sc_ret.session \in Sessions
    /\ process_registry[sc_ret.session] = 2

C14_ParseYieldsTheTableInOrder ==
    (dex_cut = "none" /\ dex_parses = 1) =>
        /\ dex_pc = "parsed"
        /\ header.string_ids_size = Len(dex_table)
        /\ Len(strings) = Len(dex_table)
        /\ \A i \in 1..Len(dex_table) : strings[i] = RecordPool[dex_table[i]].text

\* the table names the record of 128 bytes twice: two strings of 128 letters
C14_Witness ==
    /\ dex_cut = "none"
    /\ dex_parses = 1
    /\ dex_table = <<7, 7>>
    /\ Len(strings) = 2
    /\ Len(strings[1]) = 128
    /\ strings[2] = strings[1]

\* C15: read_uleb128 at the encoding of a value returns the value and the
\* offset just past the encoding (0, 127, 128, 16384 and 2^28 - 1 among the
\* values); at an encoding cut short, so that the last byte there is has the
\* continuation bit set, it fails, and it never reads past the end of the data.
C15_UlebRoundTrip ==
    uleb_in # NoUlebIn =>
        /\ uleb_in.cut = 0 =>
               /\ uleb_ret.ok
               /\ uleb_ret.result = uleb_in.value
               /\ uleb_ret.offset = uleb_in.lead + Len(uleb128(uleb_in.value))
        /\ uleb_in.cut > 0 => ~uleb_ret.ok
        /\ uleb_ret.offset <= Len(data)

\* 2^28 - 1 is read back from ff ff ff 7f at offset 1, up to the byte after it
C15_Witness ==
    /\ uleb_in.value = 268435455
    /\ data = <<255, 255, 255, 255, 127, 255>>
    /\ uleb_ret = [ok |-> TRUE, result |-> 268435455, offset |-> 5]

\* C16: after validate_and_clean_apks has run over a cache directory, every
\* .apk whose container is corrupt (bad directory record or checksum mismatch)
\* is in the quarantine directory, and every valid .apk and every other file is
\* still in the cache directory.
C16_CorruptApksAreQuarantined ==
    q_pc = "done" =>
        \A f \in FileNames :
            q_where[f] = IF q_files[f].apk /\ q_files[f].cond # "valid"
                           THEN "trash" ELSE "cache"

\* C18: download_apks fetches one artifact at a time and polls should_cancel
\* before each: every download started has its own poll before it, and once a
\* poll has returned true no further download starts and the function has
\* returned the cancelled result (None).
C18_PollBeforeEachArtifact ==
    /\ b_polls >= Len(b_outcomes) + (IF b_pc = "download" THEN 1 ELSE 0)
    /\ b_poll_true => (b_pc = "returned" /\ b_ret = "None")

\* C19: a failure of one artifact (its download exhausted or raising, its file
\* missing, an extraction error) does not stop the batch: unless cancelled,
\* download_apks ends only after it has attempted every artifact, returning
\* the ones that were fetched, and process_package_apks returns the rows of
\* every artifact that was fetched and extracted, in order.
C19_ArtifactFailuresAreLocal ==
    LET Idx == [i \in 1..b_n |-> i]
        Fetched(i) == b_outcomes[i] = "path"
        HasRows(i) == b_outcomes[i] = "path" /\ b_extract[i] = "rows"
    IN (b_variant = "precomputed" /\ b_pc \in {"returned", "processed"} /\ ~b_poll_true) =>
           /\ b_ret = "list"
           /\ Len(b_outcomes) = b_n
           /\ b_results = SelectSeq(Idx, Fetched)
           /\ b_pc = "processed" => b_data = SelectSeq(Idx, HasRows)

\* the first artifact fails extraction, the second download raises, the third
\* is fine: its rows are returned
C19_Witness ==
    /\ b_variant = "precomputed"
    /\ b_pc = "processed"
    /\ b_outcomes = <<"path", "raised", "path">>
    /\ b_extract[1] = "extract_error"
    /\ b_extract[3] = "rows"
    /\ b_results = <<1, 3>>
    /\ b_data = <<3>>

\* C20: a request in which get_connection failed with pool exhaustion ends as
\* an error for its caller, not as an ordinary, empty result, and no decode or
\* download failure ends the same way.
C20_PoolExhaustionIsFatalAndDistinct ==
    \A t \in Threads :
        (r_pc[t] = "done" /\ r_cause[t] = "pool_exhausted") =>
            /\ r_out[t] = "error"
            /\ r_out[t] # Shown("work_error")

\* C21: a process_apks_callback that has registered a session returns only
\* once that session is out of active_sessions, whether the analysis gave
\* results, gave None or raised; and every registered session is eventually
\* out of active_sessions.
C21_RegisteredSessionIsRemoved ==
    /\ [][\A h \in Handlers :
             (cb_sid[h] # NoValue /\ cb_pc'[h] = "idle")
                 => cb_sid[h] \notin DOMAIN active_sessions']_vars
    /\ \A s \in 1..MaxRequests :
           (s \in DOMAIN active_sessions) ~> (s \notin DOMAIN active_sessions)

\* MaxRequests callbacks have registered a session; the last has returned
\* after its remove_session found the session swept, and none is left
C21_Witness ==
    /\ cb_pc[Watched] = "idle"
    /\ cb_end[Watched] = "False"
    /\ next_sid = MaxRequests + 1
    /\ active_sessions = [s \in {} |-> 0]

\* C26: no clean_stale_sessions ends in an error: every session on its
\* stale_sessions list is still in active_sessions when it deletes it.
C26_SweepCompletesWithoutError ==
    \A h \in Handlers : cb_end[h] # "KeyError"

\* C27: when no register_session ran on a capacity another thread had taken,
\* the analyses executing are at most MAX_CONCURRENT_USERS.
C27_ExecutingWithinCapacity ==
    ~raced => Cardinality(Executing) <= MAX_CONCURRENT_USERS

\* C23: parse() succeeds only on an image that holds everything it reads: the
\* whole header and, for every entry of the string table, all the bytes of the
\* declared length; a string is never cut short at the end of the data.
C23_MalformedImagesFail ==
    dex_pc = "parsed" =>
        /\ Len(data) >= HeaderSize
        /\ \A i \in 1..Len(string_ids) :
               LET r == read_uleb128(data, string_ids[i])
               IN  r.ok /\ r.offset + r.result <= Len(data)

\* C22: a call of extract_apk_features that decodes the artifact returns the
\* indicators of every image that decodes, in container order, whichever
\* images fail.
C22_DecodeFailureIsLocal ==
    (x_pc = "done" /\ x_via = "decoded" /\ x_zip_ok) => x_ret = GoodIndicators(x_images)

\* C30: the JSON file of an artifact, when there is one, holds the list of
\* an extraction in which the container was read and every image decoded.
C30_JsonCacheHoldsCompleteResults ==
    x_json.exists =>
        /\ x_zip_ok
        /\ \A i \in 1..Len(x_images) : decode_image(x_images[i]).ok
        /\ x_json.data = GoodIndicators(x_images)

\* C24: for every number of candidate versions and every desired_versions
\* of 1 or more, download_apks picks at most desired_versions versions and
\* does not raise.
C24_AtMostDesiredVersions ==
    s_pc = "done" => (~s_raised /\ Len(s_tasks) <= s_desired)

\* C25: whatever get_connection and release_connection calls were made, no
\* connection is reserved by two threads and no connection on the free list
\* is reserved by a thread.
C25_ConnectionsAreExclusive ==
    /\ \A t, u \in DOMAIN in_use : t # u => in_use[t] # in_use[u]
    /\ \A i \in 1..Len(connections), t \in DOMAIN in_use : connections[i] # in_use[t]

\* C28: a running analysis can be cancelled: an analysis of the precomputed flow
\* whose registry entry cancel_process removed while polls were still ahead
\* of it ends with a poll that returned True and returns the cancelled result,
\* None; each request has a fresh session id and registers only its own thread.
C28_CancelledAnalysisReturnsCancelled ==
    \A t \in Threads :
        (f_pc[t] = "done" /\ f_kind[t] = "precomputed" /\ f_cancel[t])
            => (f_true[t] /\ f_ret[t] = "None")

\* No poll of any flow returns True, whatever cancel_process calls are made.
FlowPollsNeverTrue == \A t \in Threads : ~f_true[t]

\* C29: process_uploaded_apks for a session nobody cancelled and a list of
\* artifacts that is not empty polls without error, extracts the features of
\* every artifact and returns results, not None.
C29_UploadedApksAreProcessed ==
    \A t \in Threads :
        (f_pc[t] = "done" /\ f_kind[t] = "uploaded" /\ ~f_cancel[t])
            => /\ ~f_err[t]
               /\ f_seen[t] = 1..f_n[t]
               /\ f_ret[t] = "results"

====
